---------------------------- MODULE Spec2Model ----------------------------
(***************************************************************************)
(* A model of the chatbot package: the tool execution node                 *)
(* (TavilySearchToolNode.py), the LangGraph workflow and the ChatBot       *)
(* facade (chatbot.py), the input sanitizer (utils.py) and the summary     *)
(* generator and summary storage (summary.py).                             *)
(*                                                                         *)
(* Strings are sequences of one-character strings, so that strip, slicing, *)
(* lower() and the substring test are computed as Python computes them.    *)
(* The Chinese literals of the source are written as ASCII stand-ins (the  *)
(* original is quoted next to each).                                       *)
(***************************************************************************)
EXTENDS Naturals, Sequences, FiniteSets, TLC

VARIABLES
    memory,     \* MemorySaver: thread_id -> checkpointed "messages" channel
    pc,         \* thread_id -> node the thread's graph run executes next
    uuid,       \* thread_id -> number of message ids handed out (add_messages)
    sends,      \* number of chat() calls made so far
    turn,       \* thread_id -> bookkeeping of the chat() call in progress
    chatRet,    \* thread_id -> what the last chat() call returned
    dispatch,   \* the direct call of ToolExecutionNode.__call__: input and output
    files,      \* SummaryStorage: thread_id -> content of <thread_id>.json
    saved,      \* thread_id -> the summary last handed to save_summary
    clock,      \* datetime.now(), in ticks
    ret         \* the last call of the summary API: operation, argument, result

vars == <<memory, pc, uuid, sends, turn, chatRet, dispatch, files, saved, clock, ret>>


(***************************************************************************)
(* Bounds of the model.                                                    *)
(***************************************************************************)
MaxCalls == 4       \* tool calls in one directly dispatched batch
MaxSends == 2       \* chat() calls in one behaviour
MaxLog == 3         \* length of a log handed directly to the summary generator
MaxClock == 2       \* ticks of the clock
MaxPad == 2         \* characters of whitespace before and after a message

ThreadIds == {"t1", "t2"}

(***************************************************************************)
(* Strings.                                                                *)
(***************************************************************************)
Whitespace == {" ", "\n", "\t"}

\* str.strip(): drop the leading and the trailing whitespace.
Strip(s) ==
    LET n == Len(s)
        lead == Cardinality({i \in 1..n : \A j \in 1..i : s[j] \in Whitespace})
        trail == Cardinality({i \in 1..n : \A j \in i..n : s[j] \in Whitespace})
    IN  IF lead = n THEN <<>> ELSE SubSeq(s, lead + 1, n - trail)

LowerChar(c) ==
    CASE c = "A" -> "a" [] c = "B" -> "b" [] c = "C" -> "c" [] c = "D" -> "d"
      [] c = "E" -> "e" [] c = "F" -> "f" [] c = "G" -> "g" [] c = "H" -> "h"
      [] c = "I" -> "i" [] c = "J" -> "j" [] c = "K" -> "k" [] c = "L" -> "l"
      [] c = "M" -> "m" [] c = "N" -> "n" [] c = "O" -> "o" [] c = "P" -> "p"
      [] c = "Q" -> "q" [] c = "R" -> "r" [] c = "S" -> "s" [] c = "T" -> "t"
      [] c = "U" -> "u" [] c = "V" -> "v" [] c = "W" -> "w" [] c = "X" -> "x"
      [] c = "Y" -> "y" [] c = "Z" -> "z" [] OTHER -> c

\* str.lower()
Lower(s) == [i \in 1..Len(s) |-> LowerChar(s[i])]

\* q in s
Contains(q, s) ==
    \E i \in 0..Len(s) :
        /\ i + Len(q) <= Len(s)
        /\ \A j \in 1..Len(q) : s[i + j] = q[j]

Ellipsis == <<".", ".", ".">>

(***************************************************************************)
(* Messages (langchain_core.messages).  id = 0 is "no id yet".             *)
(***************************************************************************)
Message(type, content, tool_calls, name, tool_call_id, is_error) ==
    [type |-> type, content |-> content, tool_calls |-> tool_calls, name |-> name,
     tool_call_id |-> tool_call_id, is_error |-> is_error, id |-> 0]

HumanMessage(content) == Message("human", content, <<>>, "", 0, FALSE)

AIMessage(content, tool_calls, name) == Message("ai", content, tool_calls, name, 0, FALSE)

ToolMessage(content, name, tool_call_id, is_error) ==
    Message("tool", content, <<>>, name, tool_call_id, is_error)

Last(s) == s[Len(s)]

(***************************************************************************)
(* utils.format_tool_result.  A tool result is [shape, items]: a mapping   *)
(* is dumped as indented JSON, a list is joined by newlines, anything else *)
(* is str(result).                                                         *)
(***************************************************************************)
RECURSIVE JoinWith(_, _)
JoinWith(items, sep) ==
    IF items = <<>> THEN <<>>
    ELSE IF Len(items) = 1 THEN items[1]
    ELSE items[1] \o sep \o JoinWith(Tail(items), sep)

format_tool_result(result) ==
    IF result.shape = "dict"
    THEN <<"{", "\n", " ", " ">> \o JoinWith(result.items, <<",", "\n", " ", " ">>)
         \o <<"\n", "}">>
    ELSE IF result.shape = "list" THEN JoinWith(result.items, <<"\n">>)
    ELSE JoinWith(result.items, <<>>)

\* What the search tool returns when it does not raise.
ToolResult == [items |-> << <<"r", "1">>, <<"r", "2">> >>, shape |-> "list"]

(***************************************************************************)
(* ToolExecutionNode.                                                      *)
(***************************************************************************)
\* tools_by_name: the one tool _setup_tools registers.
tools_by_name == {"tavily_search"}

\* The names a model may ask for: the registered tool, a tool that is not
\* registered, and no name.
ToolNames == {"tavily_search", "calculator", ""}

\* What tool.invoke does when the tool is called.
InvokeOutcomes == {"ok", "raise"}

\* "找不到工具 '{tool_name}'"
NotFoundText == <<"n", "o", "t", " ", "f", "o", "u", "n", "d">>
\* "工具执行失败: {str(e)}"
ExecFailedText == <<"f", "a", "i", "l", "e", "d", ":", " ">>
\* str(e) of the exception a tool raises
ToolErrorText == <<"b", "o", "o", "m">>
\* "执行出错: {error}"
ErrorContentPrefix == <<"e", "r", "r", "o", "r", ":", " ">>

\* _execute_single_tool: the ToolMessage of the call, or the exception raised.
execute_single_tool(tool_call, outcome) ==
    IF tool_call.name = "" \/ tool_call.name \notin tools_by_name
    THEN [raised |-> TRUE, error |-> NotFoundText]
    ELSE IF outcome = "raise"
    THEN [raised |-> TRUE, error |-> ExecFailedText \o ToolErrorText]
    ELSE [raised |-> FALSE,
          value |-> ToolMessage(format_tool_result(ToolResult), tool_call.name,
                                tool_call.id, FALSE)]

\* An error message that does not carry the id of its call.
create_error_message_unlinked(tool_call, error) ==
    ToolMessage(ErrorContentPrefix \o error, tool_call.name, 0, TRUE)

create_error_message(tool_call, error) ==
    ToolMessage(ErrorContentPrefix \o error, tool_call.name, tool_call.id, TRUE)

\* The loop of __call__ from call i on, with the two lists built so far.
RECURSIVE ExecuteCalls(_, _, _, _, _)
ExecuteCalls(tool_calls, outcomes, i, outputs, errors) ==
    IF i > Len(tool_calls) THEN outputs \o errors
    ELSE LET r == execute_single_tool(tool_calls[i], outcomes[i])
         IN  IF r.raised
             THEN ExecuteCalls(tool_calls, outcomes, i + 1, outputs,
                               Append(errors, create_error_message(tool_calls[i], r.error)))
             ELSE ExecuteCalls(tool_calls, outcomes, i + 1, Append(outputs, r.value), errors)

\* A loop without the per-call try/except: the first failing call ends it.
RECURSIVE ExecuteCallsAborting(_, _, _, _, _)
ExecuteCallsAborting(tool_calls, outcomes, i, outputs, errors) ==
    IF i > Len(tool_calls) THEN outputs \o errors
    ELSE LET r == execute_single_tool(tool_calls[i], outcomes[i])
         IN  IF r.raised
             THEN outputs \o <<create_error_message(tool_calls[i], r.error)>>
             ELSE ExecuteCallsAborting(tool_calls, outcomes, i + 1,
                                       Append(outputs, r.value), errors)

DispatchAborting(tool_calls, outcomes) ==
    ExecuteCallsAborting(tool_calls, outcomes, 1, <<>>, <<>>)

\* all_outputs of __call__ for the tool calls of the last message.
Dispatch(tool_calls, outcomes) == ExecuteCalls(tool_calls, outcomes, 1, <<>>, <<>>)

\* ToolExecutionNode.__call__: the update it returns, or the ValueError.
ToolExecutionNode(messages, outcomes) ==
    IF messages = <<>> THEN [raised |-> TRUE, messages |-> <<>>]
    ELSE IF Last(messages).type # "ai" THEN [raised |-> FALSE, messages |-> <<>>]
    ELSE IF Last(messages).tool_calls = <<>> THEN [raised |-> FALSE, messages |-> <<>>]
    ELSE [raised |-> FALSE, messages |-> Dispatch(Last(messages).tool_calls, outcomes)]

\* The tool calls of a model answer: call i asks for names[i] under id base + i.
ToolCalls(names, base) == [i \in 1..Len(names) |-> [name |-> names[i], id |-> base + i]]

Batches(n) == UNION {[1..k -> ToolNames] : k \in 1..n}

NoDispatch == [called |-> FALSE]


(***************************************************************************)
(* utils.sanitize_user_input.                                              *)
(***************************************************************************)
max_length == 10000

\* A sanitizer that forgets to trim.
sanitize_without_strip(user_input) ==
    IF Len(user_input) > max_length
    THEN SubSeq(user_input, 1, max_length) \o Ellipsis
    ELSE user_input

\* A sanitizer that also cuts an input of exactly max_length characters.
sanitize_cuts_at_cap(user_input) ==
    IF user_input = <<>> THEN <<>>
    ELSE IF Len(Strip(user_input)) >= max_length
    THEN SubSeq(Strip(user_input), 1, max_length) \o Ellipsis
    ELSE Strip(user_input)

sanitize_user_input(user_input) ==
    IF user_input = <<>> THEN <<>>
    ELSE LET sanitized == Strip(user_input)
         IN  IF Len(sanitized) > max_length
             THEN SubSeq(sanitized, 1, max_length) \o Ellipsis
             ELSE sanitized

(***************************************************************************)
(* langgraph.graph.message.add_messages, the reducer of the "messages"     *)
(* channel: messages without an id get a fresh one, then every message of  *)
(* the update replaces the message of the same id or is appended.          *)
(***************************************************************************)
CountNew(msgs) == Cardinality({i \in 1..Len(msgs) : msgs[i].id = 0})

AssignIds(msgs, n) ==
    [i \in 1..Len(msgs) |->
        IF msgs[i].id = 0
        THEN [msgs[i] EXCEPT !.id = n + Cardinality({j \in 1..i : msgs[j].id = 0})]
        ELSE msgs[i]]

\* Every message of right replaces the message of left that has its id, in
\* place, or is appended; the ids within each list are distinct.
MergeById(left, right) ==
    LET at(m) == {j \in 1..Len(right) : right[j].id = m.id}
        known(m) == \E i \in 1..Len(left) : left[i].id = m.id
        merged == [i \in 1..Len(left) |->
                      IF at(left[i]) = {} THEN left[i]
                      ELSE right[CHOOSE j \in at(left[i]) : TRUE]]
    IN  merged \o SelectSeq(right, LAMBDA m : ~known(m))

\* A channel without a reducer: the update takes the place of the list.
add_messages_overwrite(left, right, n) ==
    [messages |-> AssignIds(right, n + CountNew(left)),
     uuid |-> n + CountNew(left) + CountNew(right)]

\* The reducer on two distinct lists; n ids were handed out before.
add_messages(left, right, n) ==
    LET l == AssignIds(left, n)
        r == AssignIds(right, n + CountNew(left))
    IN  [messages |-> MergeById(l, r), uuid |-> n + CountNew(left) + CountNew(right)]

\* The reducer when the update is the channel's own list object, which the
\* node has changed in place: both arguments hold the same message objects.
add_messages_in_place(messages, n) ==
    LET l == AssignIds(messages, n)
    IN  [messages |-> MergeById(l, l), uuid |-> n + CountNew(messages)]

(***************************************************************************)
(* The model collaborator.  A response is what model.invoke does: it       *)
(* raises, or it returns an AIMessage with a content and tool calls.       *)
(***************************************************************************)
\* str(e) of the exception model.invoke raises
ModelErrorText == <<"t", "i", "m", "e", "o", "u", "t">>
AnswerText == <<"a", "n", "s", "w", "e", "r">>
NarrationText == <<"n", "a", "r", "r", "a", "t", "e", "d">>

Raises == [content |-> <<>>, kind |-> "raise", tool_names |-> <<>>]
Answers(content, tool_names) ==
    [content |-> content, kind |-> "answer", tool_names |-> tool_names]

\* The tool-call batches the model asks for in a graph run: one call; a call
\* of an unregistered tool before a call of the registered one.
GraphBatches == { <<"tavily_search">>, <<"calculator", "tavily_search">> }

FirstResponses ==
    {Raises, Answers(AnswerText, <<>>)} \cup {Answers(<<>>, b) : b \in GraphBatches}

\* The model that narrates is the model the tools are bound to
\* (_setup_model): its narration may ask for a tool again.
FinalResponses ==
    {Raises, Answers(NarrationText, <<>>), Answers(NarrationText, <<"tavily_search">>)}

\* "Sorry, I encountered an error: {str(e)}"
SorryPrefix == <<"S", "o", "r", "r", "y", ":", " ">>
\* "I found some information but encountered an error processing it: {str(e)}"
FoundButPrefix == <<"P", "a", "r", "t", "i", "a", "l", ":", " ">>
\* "Based on the search results: {result_content}, please provide a helpful
\* response to the user."
BasedOnPrefix == <<"B", "a", "s", "e", "d", " ", "o", "n", ":", " ">>
PleaseSuffix == <<",", " ", "p", "l", "e", "a", "s", "e">>

(***************************************************************************)
(* The nodes of the workflow (ChatBot._setup_graph).                       *)
(***************************************************************************)
_trim_messages(messages) == messages

\* A node whose error answer asks for a tool.
_chatbot_node_error_asks_tool(messages, resp, base) ==
    [request |-> messages,
     message |-> IF resp.kind = "raise"
                 THEN AIMessage(SorryPrefix \o ModelErrorText,
                                ToolCalls(<<"tavily_search">>, base), "error")
                 ELSE AIMessage(resp.content, ToolCalls(resp.tool_names, base), "")]

\* _chatbot_node: the message of the update it returns.  The model sees the
\* messages in `request`.
_chatbot_node(messages, resp, base) ==
    LET request == _trim_messages(messages)
    IN  IF resp.kind = "raise"
        THEN [request |-> request,
              message |-> AIMessage(SorryPrefix \o ModelErrorText, <<>>, "error")]
        ELSE [request |-> request,
              message |-> AIMessage(resp.content, ToolCalls(resp.tool_names, base), "")]

\* _route_tools
_route_tools(messages) ==
    IF messages = <<>> THEN "process"
    ELSE IF Last(messages).type = "ai" /\ Last(messages).tool_calls # <<>> THEN "tools"
    ELSE "process"

\* An edge from "tools" back to "chatbot".
NodeAfterToolsBackToChatbot == "chatbot"

\* The edge of "tools": add_edge("tools", "process_response").
NodeAfterTools == "process_response"

\* The conditional edges of "chatbot" with a path map that names no node
\* for "process".
NodeAfterChatbotUnmapped(messages) ==
    IF _route_tools(messages) = "tools" THEN "tools" ELSE "process"

\* The conditional edges of "chatbot": {"tools": "tools", "process":
\* "process_response"}.
NodeAfterChatbot(messages) ==
    IF _route_tools(messages) = "tools" THEN "tools" ELSE "process_response"

\* A node that returns the last message once more, as a new message.
_process_response_echo(messages, resp, base) ==
    IF messages = <<>> THEN [invoked |-> FALSE, request |-> <<>>, messages |-> <<>>]
    ELSE [invoked |-> FALSE, request |-> <<>>,
          messages |-> Append(messages, AIMessage(Last(messages).content, <<>>, ""))]

\* A node that adds its answer after the tool result instead of putting it in
\* the place of the tool result.
_process_response_appends(messages, resp, base) ==
    IF messages = <<>> THEN [invoked |-> FALSE, request |-> <<>>, messages |-> <<>>]
    ELSE IF Last(messages).type = "tool"
    THEN [invoked |-> TRUE, request |-> <<>>,
          messages |-> Append(messages,
                              IF resp.kind = "raise"
                              THEN AIMessage(FoundButPrefix \o ModelErrorText, <<>>, "error")
                              ELSE AIMessage(resp.content, <<>>, ""))]
    ELSE [invoked |-> FALSE, request |-> <<>>, messages |-> messages]

\* A node that returns the log untouched when the last message is a tool result.
_process_response_keeps_tool(messages, resp, base) ==
    [invoked |-> FALSE, request |-> <<>>, messages |-> messages]

\* _process_response_node: the list it returns (the channel's list, changed
\* in place when the last message is a tool result), whether it called the
\* model and with which messages.
_process_response_node(messages, resp, base) ==
    IF messages = <<>> THEN [invoked |-> FALSE, request |-> <<>>, messages |-> <<>>]
    ELSE IF Last(messages).type = "tool"
    THEN LET n == Len(messages)
             prompt_messages ==
                 SubSeq(messages, 1, n - 2)
                 \o <<HumanMessage(BasedOnPrefix \o Last(messages).content \o PleaseSuffix)>>
             response ==
                 IF resp.kind = "raise"
                 THEN AIMessage(FoundButPrefix \o ModelErrorText, <<>>, "error")
                 ELSE AIMessage(resp.content, ToolCalls(resp.tool_names, base), "")
         IN  [invoked |-> TRUE, request |-> prompt_messages,
              messages |-> [messages EXCEPT ![n] = response]]
    ELSE [invoked |-> FALSE, request |-> <<>>, messages |-> messages]


(***************************************************************************)
(* Python values of the summary fields and of the parsed model output:     *)
(* None, a str, a list of str.                                             *)
(***************************************************************************)
PyNone == [s |-> <<>>, l |-> <<>>, py |-> "NoneType"]
PyStr(s) == [s |-> s, l |-> <<>>, py |-> "str"]
PyList(l) == [s |-> <<>>, l |-> l, py |-> "list"]

(***************************************************************************)
(* summary.SummaryGenerator.                                               *)
(***************************************************************************)
max_messages == 10
fallback_cap == 200

\* "用户: ", "助手: ", "系统: "
UserTag == <<"U", "s", ":", " ">>
AssistantTag == <<"A", "s", ":", " ">>
SystemTag == <<"S", "y", ":", " ">>

\* The lines of the transcript: tool messages are left out.
RECURSIVE FormattedLines(_)
FormattedLines(msgs) ==
    IF msgs = <<>> THEN <<>>
    ELSE LET m == Head(msgs)
             line == IF m.type = "human" THEN <<UserTag \o m.content>>
                     ELSE IF m.type = "ai" THEN <<AssistantTag \o m.content>>
                     ELSE IF m.type = "system" THEN <<SystemTag \o m.content>>
                     ELSE <<>>
         IN  line \o FormattedLines(Tail(msgs))

_format_messages_for_summary(messages) ==
    LET n == Len(messages)
        recent_messages ==
            IF n > max_messages THEN SubSeq(messages, n - max_messages + 1, n)
            ELSE messages
    IN  JoinWith(FormattedLines(recent_messages), <<"\n", "\n">>)

\* "对话摘要", "对话", "用户与助手进行了交流", "获取信息", "中性", "未分类"
FallbackTitle == <<"s", "u", "m", "m", "a", "r", "y">>
FallbackTopic == <<"c", "h", "a", "t">>
FallbackPoint == <<"t", "a", "l", "k", "e", "d">>
FallbackGoal == <<"i", "n", "f", "o">>
Neutral == <<"n", "e", "u", "t", "r", "a", "l">>
Uncategorized == <<"u", "n", "c", "a", "t">>
\* "正面", "负面"
Positive == <<"p", "o", "s", "i", "t", "i", "v", "e">>
Negative == <<"n", "e", "g", "a", "t", "i", "v", "e">>
\* "未命名对话"
UntitledTitle == <<"u", "n", "t", "i", "t", "l", "e", "d">>
\* "空对话", "此对话暂无内容。"
EmptyTitle == <<"e", "m", "p", "t", "y">>
EmptyText == <<"n", "o", " ", "c", "o", "n", "t", "e", "n", "t">>
\* "摘要生成失败", "错误", "生成摘要时出错: ", "摘要生成失败，请稍后重试。"
FailedTitle == <<"f", "a", "i", "l", "e", "d">>
ErrorTopic == <<"e", "r", "r", "o", "r">>
FailedPointPrefix == <<"e", "r", "r", "o", "r", ":", " ">>
FailedText == <<"r", "e", "t", "r", "y">>
\* str(e) of the AttributeError of .get on a parsed value that is no dict
NoGetText == <<"n", "o", " ", "g", "e", "t">>

DataKeys ==
    {"title", "main_topics", "key_points", "user_goals", "sentiment", "tags",
     "summary_text"}

\* A dict with the keys `keys`; `val` gives the value of each.
Dict(keys, val) == [keys |-> keys, val |-> val, isdict |-> TRUE]
\* A parsed JSON value that is no dict (a list, a string, a number, null).
NotADict == [keys |-> {}, val |-> [k \in DataKeys |-> PyNone], isdict |-> FALSE]

\* dict.get(key, default)
Get(d, key, default) == IF key \in d.keys THEN d.val[key] ELSE default

_generate_fallback_summary(messages) ==
    Dict(DataKeys,
         [title |-> PyStr(FallbackTitle),
          summary_text |-> PyStr(IF Len(messages) > fallback_cap
                                 THEN SubSeq(messages, 1, fallback_cap) \o Ellipsis
                                 ELSE messages),
          main_topics |-> PyList(<<FallbackTopic>>),
          key_points |-> PyList(<<FallbackPoint>>),
          user_goals |-> PyList(<<FallbackGoal>>),
          sentiment |-> PyStr(Neutral),
          tags |-> PyList(<<Uncategorized>>)])

ConversationSummary(thread_id, title, main_topics, key_points, user_goals, created_at, message_count, sentiment, tags, summary_text) ==
    [thread_id |-> thread_id, title |-> title, main_topics |-> main_topics,
     key_points |-> key_points, user_goals |-> user_goals, created_at |-> created_at,
     message_count |-> message_count, sentiment |-> sentiment, tags |-> tags,
     summary_text |-> summary_text]

_create_empty_summary(thread_id, now) ==
    ConversationSummary(thread_id, PyStr(EmptyTitle), PyList(<<>>), PyList(<<>>),
                        PyList(<<>>), now, 0, PyStr(Neutral), PyList(<<EmptyTitle>>),
                        PyStr(EmptyText))

_create_error_summary(thread_id, error, now) ==
    ConversationSummary(thread_id, PyStr(FailedTitle), PyList(<<ErrorTopic>>),
                        PyList(<<FailedPointPrefix \o error>>), PyList(<<>>), now, 0,
                        PyStr(Negative), PyList(<<ErrorTopic>>), PyStr(FailedText))

\* What the summary model does: it raises, or it returns a content, which
\* json.loads rejects (JSONDecodeError) or parses to `value`.
SummaryRaises == [value |-> NotADict, kind |-> "raise", parses |-> FALSE]
SummaryGarbage == [value |-> NotADict, kind |-> "content", parses |-> FALSE]
SummaryJson(value) == [value |-> value, kind |-> "content", parses |-> TRUE]

\* json.loads(response.content)
json_loads(content) ==
    IF content.parses THEN [raised |-> FALSE, value |-> content.value]
    ELSE [raised |-> TRUE, value |-> NotADict]

\* The body of the try block of generate_summary: the summary, or the
\* exception that leaves the block.
GenerateTry(messages, thread_id, out, now) ==
    LET formatted_messages == _format_messages_for_summary(messages)
    IN  IF out.kind = "raise" THEN [raised |-> TRUE, error |-> ModelErrorText]
        ELSE LET parsed == json_loads(out)
                 summary_data ==
                     IF parsed.raised THEN _generate_fallback_summary(formatted_messages)
                     ELSE parsed.value
             IN  IF ~summary_data.isdict THEN [raised |-> TRUE, error |-> NoGetText]
                 ELSE [raised |-> FALSE,
                       value |->
                         ConversationSummary(
                             thread_id,
                             Get(summary_data, "title", PyStr(UntitledTitle)),
                             Get(summary_data, "main_topics", PyList(<<>>)),
                             Get(summary_data, "key_points", PyList(<<>>)),
                             Get(summary_data, "user_goals", PyList(<<>>)),
                             now,
                             Len(messages),
                             Get(summary_data, "sentiment", PyStr(Neutral)),
                             Get(summary_data, "tags", PyList(<<>>)),
                             Get(summary_data, "summary_text", PyStr(<<>>)))]

\* generate_summary without the outer except: the exception propagates.
generate_summary_unguarded(messages, thread_id, out, now) ==
    IF messages = <<>>
    THEN [raised |-> FALSE, value |-> _create_empty_summary(thread_id, now)]
    ELSE LET r == GenerateTry(messages, thread_id, out, now)
         IN  IF r.raised
             THEN [raised |-> TRUE, value |-> _create_empty_summary(thread_id, now)]
             ELSE r

\* SummaryGenerator.generate_summary
generate_summary(messages, thread_id, out, now) ==
    IF messages = <<>>
    THEN [raised |-> FALSE, value |-> _create_empty_summary(thread_id, now)]
    ELSE LET r == GenerateTry(messages, thread_id, out, now)
         IN  IF r.raised
             THEN [raised |-> FALSE, value |-> _create_error_summary(thread_id, r.error, now)]
             ELSE r


(***************************************************************************)
(* datetime.now().isoformat(): the text of a tick, two digits wide, and    *)
(* the order of str on such texts.                                         *)
(***************************************************************************)
Digits == <<"0", "1", "2", "3", "4", "5", "6", "7", "8", "9">>

isoformat(tick) == <<Digits[(tick \div 10) + 1], Digits[(tick % 10) + 1]>>

CharRank(c) == IF \E d \in 1..10 : Digits[d] = c
               THEN CHOOSE d \in 1..10 : Digits[d] = c
               ELSE 0

\* a < b on str
StrLess(a, b) ==
    \/ \E i \in 1..Len(a) :
          /\ i <= Len(b)
          /\ \A j \in 1..(i - 1) : a[j] = b[j]
          /\ CharRank(a[i]) < CharRank(b[i])
    \/ Len(a) < Len(b) /\ \A j \in 1..Len(a) : a[j] = b[j]

(***************************************************************************)
(* summary.SummaryStorage.  A file holds the JSON text json.dump writes:   *)
(* the members of the object in field order, each value a JSON null,       *)
(* string, array or number.  NoFile: the path does not exist.              *)
(***************************************************************************)
NoFile == <<>>
None == <<>>
Some(x) == <<x>>

Fields ==
    <<"thread_id", "title", "main_topics", "key_points", "user_goals", "created_at",
      "message_count", "sentiment", "tags", "summary_text">>

JNull == [s |-> <<>>, n |-> 0, j |-> "null", l |-> <<>>]
JString(s) == [s |-> s, n |-> 0, j |-> "string", l |-> <<>>]
JArray(l) == [s |-> <<>>, n |-> 0, j |-> "array", l |-> l]
JNumber(n) == [s |-> <<>>, n |-> n, j |-> "number", l |-> <<>>]

\* json.dump of a field value
JsonOfPy(v) ==
    IF v.py = "NoneType" THEN JNull
    ELSE IF v.py = "str" THEN JString(v.s)
    ELSE JArray(v.l)

\* json.load of a member value
PyOfJson(v) ==
    IF v.j = "null" THEN PyNone
    ELSE IF v.j = "string" THEN PyStr(v.s)
    ELSE PyList(v.l)

Member(key, value) == [value |-> value, key |-> key]

\* json.dump(summary.to_dict(), f)
to_dict_dump(summary) ==
    << Member("thread_id", JString(<<summary.thread_id>>)),
       Member("title", JsonOfPy(summary.title)),
       Member("main_topics", JsonOfPy(summary.main_topics)),
       Member("key_points", JsonOfPy(summary.key_points)),
       Member("user_goals", JsonOfPy(summary.user_goals)),
       Member("created_at", JString(summary.created_at)),
       Member("message_count", JNumber(summary.message_count)),
       Member("sentiment", JsonOfPy(summary.sentiment)),
       Member("tags", JsonOfPy(summary.tags)),
       Member("summary_text", JsonOfPy(summary.summary_text)) >>

\* The value of member `key` of a JSON object.
ValueOf(doc, key) == doc[CHOOSE i \in 1..Len(doc) : doc[i].key = key].value

\* ConversationSummary.from_dict(json.load(f)): cls(**data) raises TypeError
\* unless the keys are exactly the fields.
from_dict_load(doc) ==
    IF \/ Len(doc) # Len(Fields)
       \/ {doc[i].key : i \in 1..Len(doc)} # {Fields[i] : i \in 1..Len(Fields)}
    THEN [raised |-> TRUE, value |-> None]
    ELSE [raised |-> FALSE,
          value |-> Some(ConversationSummary(
              ValueOf(doc, "thread_id").s[1],
              PyOfJson(ValueOf(doc, "title")),
              PyOfJson(ValueOf(doc, "main_topics")),
              PyOfJson(ValueOf(doc, "key_points")),
              PyOfJson(ValueOf(doc, "user_goals")),
              ValueOf(doc, "created_at").s,
              ValueOf(doc, "message_count").n,
              PyOfJson(ValueOf(doc, "sentiment")),
              PyOfJson(ValueOf(doc, "tags")),
              PyOfJson(ValueOf(doc, "summary_text"))))]

\* A save whose file name does not depend on the thread.
save_summary_one_file(fs, summary) == [fs EXCEPT !["t1"] = to_dict_dump(summary)]

\* save_summary: the files after it.
save_summary(fs, summary) == [fs EXCEPT ![summary.thread_id] = to_dict_dump(summary)]

\* load_summary: the summary, or None.
load_summary(fs, thread_id) ==
    IF fs[thread_id] = NoFile THEN None
    ELSE from_dict_load(fs[thread_id]).value

\* A delete that empties the directory.
delete_summary_all(fs, thread_id) == [t \in ThreadIds |-> NoFile]

\* delete_summary: the files after it.
delete_summary(fs, thread_id) == [fs EXCEPT ![thread_id] = NoFile]

\* list.sort(key=created_at, reverse=True): stable, newest first.
RECURSIVE InsertNewestFirst(_, _)
InsertNewestFirst(sorted, x) ==
    IF sorted = <<>> THEN <<x>>
    ELSE IF StrLess(Head(sorted).created_at, x.created_at)
    THEN <<x>> \o sorted
    ELSE <<Head(sorted)>> \o InsertNewestFirst(Tail(sorted), x)

RECURSIVE SortNewestFirst(_, _)
SortNewestFirst(summaries, sorted) ==
    IF summaries = <<>> THEN sorted
    ELSE SortNewestFirst(Tail(summaries), InsertNewestFirst(sorted, Head(summaries)))

\* The orders in which os.listdir may give the files of the directory.
Listings(fs) ==
    LET present == {t \in ThreadIds : fs[t] # NoFile}
    IN  {o \in [1..Cardinality(present) -> present] :
            \A i, j \in 1..Cardinality(present) : i # j => o[i] # o[j]}

RECURSIVE Loaded(_, _)
Loaded(fs, listing) ==
    IF listing = <<>> THEN <<>>
    ELSE load_summary(fs, Head(listing)) \o Loaded(fs, Tail(listing))

\* A listing that forgets to sort.
list_summaries_unsorted(fs, listing) == Loaded(fs, listing)

\* list_summaries, the directory read in the order `listing`.
list_summaries(fs, listing) == SortNewestFirst(Loaded(fs, listing), <<>>)

\* any(query in x.lower() for x in value): None is not iterable ("raise"), a
\* str is iterated character by character.
AnyContains(query, value) ==
    IF value.py = "NoneType" THEN "raise"
    ELSE IF value.py = "str"
    THEN IF \E i \in 1..Len(value.s) : Contains(query, Lower(<<value.s[i]>>))
         THEN "yes" ELSE "no"
    ELSE IF \E i \in 1..Len(value.l) : Contains(query, Lower(value.l[i])) THEN "yes"
    ELSE "no"

\* query in value.lower(): "raise" when value is no str.
StrContains(query, value) ==
    IF value.py # "str" THEN "raise"
    ELSE IF Contains(query, Lower(value.s)) THEN "yes"
    ELSE "no"

\* The condition of the if of search_summaries, evaluated left to right.
Matches(query, summary) ==
    LET a == StrContains(query, summary.title)
        b == StrContains(query, summary.summary_text)
        c == AnyContains(query, summary.main_topics)
        d == AnyContains(query, summary.tags)
    IN  IF a # "no" THEN a
        ELSE IF b # "no" THEN b
        ELSE IF c # "no" THEN c
        ELSE d

RECURSIVE Filter(_, _)
Filter(query, summaries) ==
    IF summaries = <<>> THEN [raised |-> FALSE, value |-> <<>>]
    ELSE LET m == Matches(query, Head(summaries))
             rest == Filter(query, Tail(summaries))
         IN  IF m = "raise" \/ rest.raised THEN [raised |-> TRUE, value |-> <<>>]
             ELSE [raised |-> FALSE,
                   value |-> (IF m = "yes" THEN <<Head(summaries)>> ELSE <<>>) \o rest.value]

\* search_summaries: the matching summaries, or the exception a field that
\* is no str (no list) raises.
search_summaries(fs, listing, query) == Filter(Lower(query), list_summaries(fs, listing))


(***************************************************************************)
(* The ChatBot facade: the summary operations.                             *)
(***************************************************************************)
message_threshold == 20

\* get_conversation_history: the checkpointed messages, [] without checkpoint.
get_conversation_history(mem, thread_id) == mem[thread_id]

\* The ticks datetime.now() may show when the clock showed `c` before.
Nows(c) == {c, IF c < MaxClock THEN c + 1 ELSE c}

\* A generate_summary that forgets to save.
facade_generate_unsaved(mem, fs, thread_id, out, tick) ==
    LET messages == get_conversation_history(mem, thread_id)
    IN  IF messages = <<>> THEN [value |-> None, files |-> fs, generated |-> FALSE]
        ELSE [value |-> Some(generate_summary(messages, thread_id, out, isoformat(tick)).value),
              files |-> fs, generated |-> TRUE]

\* A generate_summary that summarizes and saves whatever the history holds.
facade_generate_on_empty(mem, fs, thread_id, out, tick) ==
    LET messages == get_conversation_history(mem, thread_id)
        summary == generate_summary(messages, thread_id, out, isoformat(tick)).value
    IN  [value |-> Some(summary), files |-> save_summary(fs, summary), generated |-> TRUE]

\* ChatBot.generate_summary: what it returns and the storage after it.
facade_generate_summary(mem, fs, thread_id, out, tick) ==
    LET messages == get_conversation_history(mem, thread_id)
    IN  IF messages = <<>> THEN [value |-> None, files |-> fs, generated |-> FALSE]
        ELSE LET summary == generate_summary(messages, thread_id, out, isoformat(tick)).value
             IN  [value |-> Some(summary), files |-> save_summary(fs, summary),
                  generated |-> TRUE]

\* An auto-summary that waits until the count is above the threshold.
auto_summarize_above_threshold(mem, fs, thread_id, threshold, out, tick) ==
    LET existing_summary == load_summary(fs, thread_id)
    IN  IF existing_summary # None
        THEN [value |-> existing_summary, files |-> fs, generated |-> FALSE]
        ELSE IF Len(get_conversation_history(mem, thread_id)) > threshold
        THEN facade_generate_summary(mem, fs, thread_id, out, tick)
        ELSE [value |-> None, files |-> fs, generated |-> FALSE]

\* An auto-summary that does not look for a stored summary first.
auto_summarize_ignores_existing(mem, fs, thread_id, threshold, out, tick) ==
    IF Len(get_conversation_history(mem, thread_id)) >= threshold
    THEN facade_generate_summary(mem, fs, thread_id, out, tick)
    ELSE [value |-> None, files |-> fs, generated |-> FALSE]

\* ChatBot.auto_summarize_if_needed(thread_id, message_threshold)
auto_summarize_if_needed(mem, fs, thread_id, threshold, out, tick) ==
    LET existing_summary == load_summary(fs, thread_id)
    IN  IF existing_summary # None
        THEN [value |-> existing_summary, files |-> fs, generated |-> FALSE]
        ELSE IF Len(get_conversation_history(mem, thread_id)) >= threshold
        THEN facade_generate_summary(mem, fs, thread_id, out, tick)
        ELSE [value |-> None, files |-> fs, generated |-> FALSE]

\* A chat() that summarizes whatever auto_summarize says.
AutoSummarizeAlways(auto_summarize, mem, fs, thread_id, out, tick) ==
    auto_summarize_if_needed(mem, fs, thread_id, message_threshold, out, tick)

\* chat(): "if auto_summarize: summary = self.auto_summarize_if_needed(thread_id)"
AutoSummarizeIfAsked(auto_summarize, mem, fs, thread_id, out, tick) ==
    IF auto_summarize
    THEN auto_summarize_if_needed(mem, fs, thread_id, message_threshold, out, tick)
    ELSE [value |-> None, files |-> fs, generated |-> FALSE]

(***************************************************************************)
(* The state after construction.                                           *)
(***************************************************************************)
NoTurn ==
    [phase |-> "none", auto |-> FALSE, entry |-> <<>>, model_calls |-> 0, tool_runs |-> 0,
     chunks |-> <<>>]

NoReturn == [tool_calls |-> 0, kind |-> "none", response |-> <<>>, message_count |-> 0,
             summary_generated |-> FALSE]

\* "Please provide a valid message.", {"error": "Invalid input"}
InvalidText == <<"I", "n", "v", "a", "l", "i", "d">>
InvalidInput == [tool_calls |-> 0, kind |-> "invalid", response |-> InvalidText,
                 message_count |-> 0, summary_generated |-> FALSE]

NoCall == [op |-> "none"]

Init ==
    /\ memory = [t \in ThreadIds |-> <<>>]
    /\ pc = [t \in ThreadIds |-> "idle"]
    /\ uuid = [t \in ThreadIds |-> 0]
    /\ sends = 0
    /\ turn = [t \in ThreadIds |-> NoTurn]
    /\ chatRet = [t \in ThreadIds |-> NoReturn]
    /\ dispatch = NoDispatch
    /\ files = [t \in ThreadIds |-> NoFile]
    /\ saved = [t \in ThreadIds |-> None]
    /\ clock = 0
    /\ ret = NoCall

(***************************************************************************)
(* ChatBot.chat, one action per step of graph.stream: the input step, then *)
(* one step per node; the last step includes what chat does after the      *)
(* graph has ended.  What a step computes is bound with \E x \in {e}, so   *)
(* that it is computed once.                                               *)
(***************************************************************************)
\* What a user types: nothing, whitespace only, a text, a text to be trimmed.
UserInputs == { <<>>, <<" ">>, <<"\n", " ">>, <<"h", "i">>, <<" ", "h", "i", "\n">> }

\* The ids of the tool calls of the answer that becomes message number k.
CallIdBase(k) == 10 * k

\* chat(message, thread_id, auto_summarize) up to the input step.
Chat(t, message, auto_summarize) ==
    /\ pc[t] = "idle"
    /\ sends < MaxSends
    /\ sends' = sends + 1
    /\ LET sanitized_message == sanitize_user_input(message)
           started == [phase |-> "running", auto |-> auto_summarize, entry |-> memory[t],
                       model_calls |-> 0, tool_runs |-> 0, chunks |-> <<>>]
       IN  IF sanitized_message = <<>>
           THEN /\ chatRet' = [chatRet EXCEPT ![t] = InvalidInput]
                /\ turn' = [turn EXCEPT ![t] = [started EXCEPT !.phase = "rejected"]]
                /\ UNCHANGED <<memory, pc, uuid>>
           ELSE \E r \in {add_messages(memory[t], <<HumanMessage(sanitized_message)>>, uuid[t])} :
                    /\ memory' = [memory EXCEPT ![t] = r.messages]
                    /\ uuid' = [uuid EXCEPT ![t] = r.uuid]
                    /\ pc' = [pc EXCEPT ![t] = "chatbot"]
                    /\ turn' = [turn EXCEPT ![t] = started]
                    /\ chatRet' = [chatRet EXCEPT ![t] = NoReturn]
    /\ UNCHANGED <<dispatch, files, saved, clock, ret>>

\* The node "chatbot" and the conditional edge after it.
ChatbotStep(t, resp) ==
    /\ pc[t] = "chatbot"
    /\ turn[t].phase = "running"
    /\ \E node \in {_chatbot_node(memory[t], resp, CallIdBase(uuid[t] + 1))} :
       \E r \in {add_messages(memory[t], <<node.message>>, uuid[t])} :
           /\ memory' = [memory EXCEPT ![t] = r.messages]
           /\ uuid' = [uuid EXCEPT ![t] = r.uuid]
           /\ pc' = [pc EXCEPT ![t] = NodeAfterChatbot(r.messages)]
    /\ turn' = [turn EXCEPT ![t].model_calls = @ + 1]
    /\ UNCHANGED <<sends, chatRet, dispatch, files, saved, clock, ret>>

\* The outcomes of the calls of a batch, one per call.
Outcomes(tool_calls) == [1..Len(tool_calls) -> InvokeOutcomes]

\* The tool calls the node "tools" of thread t is about to execute.
PendingCalls(t) == IF pc[t] = "tools" THEN Last(memory[t]).tool_calls ELSE <<>>

\* What the inputs of the last step can be: the model is called only on a
\* tool result, the summary model and the clock only when a summary is due.
AwaitsNarration(t) == pc[t] = "process_response" /\ Last(memory[t]).type = "tool"

SummaryDue(t) ==
    /\ pc[t] = "process_response"
    /\ turn[t].auto
    /\ files[t] = NoFile
    /\ Len(memory[t]) >= message_threshold

\* The node "tools" and the edge to "process_response".
ToolsStep(t, outcomes) ==
    /\ pc[t] = "tools"
    /\ turn[t].phase = "running"
    /\ \E node \in {ToolExecutionNode(memory[t], outcomes)} :
       \E r \in {add_messages(memory[t], node.messages, uuid[t])} :
           /\ memory' = [memory EXCEPT ![t] = r.messages]
           /\ uuid' = [uuid EXCEPT ![t] = r.uuid]
    /\ pc' = [pc EXCEPT ![t] = NodeAfterTools]
    /\ turn' = [turn EXCEPT ![t].tool_runs = @ + 1]
    /\ UNCHANGED <<sends, chatRet, dispatch, files, saved, clock, ret>>

\* The node "process_response", the end of the graph and the rest of chat:
\* the result it returns and the automatic summary.
ProcessStep(t, resp, out, tick) ==
    /\ pc[t] = "process_response"
    /\ turn[t].phase = "running"
    /\ \E node \in {_process_response_node(memory[t], resp, CallIdBase(uuid[t] + 1))} :
       \E r \in {add_messages_in_place(node.messages, uuid[t])} :
       \E mem \in {[memory EXCEPT ![t] = r.messages]}, last_message \in {Last(r.messages)} :
       \E auto \in {AutoSummarizeIfAsked(turn[t].auto, mem, files, t, out, tick)} :
           /\ memory' = mem
           /\ uuid' = [uuid EXCEPT ![t] = r.uuid]
           /\ turn' = [turn EXCEPT ![t].phase = "done",
                                   ![t].model_calls = IF node.invoked THEN @ + 1 ELSE @]
           /\ chatRet' = [chatRet EXCEPT ![t] =
                            [kind |-> "ok", response |-> last_message.content,
                             message_count |-> Len(r.messages),
                             tool_calls |-> Len(last_message.tool_calls),
                             summary_generated |-> auto.value # None]]
           /\ files' = auto.files
           /\ saved' = IF auto.generated THEN [saved EXCEPT ![t] = auto.value] ELSE saved
           /\ clock' = IF auto.generated THEN tick ELSE clock
    /\ pc' = [pc EXCEPT ![t] = "idle"]
    /\ UNCHANGED <<sends, dispatch, ret>>


\* The model answers the summary prompt with something json.loads parses to
\* a full dict.  "机器学习" ("ML"), "python"
MlTitle == <<"M", "L", " ", "t", "a", "l", "k">>
MlText == <<"a", "b", "o", "u", "t", " ", "M", "L">>
MlTopics == << <<"m", "o", "d", "e", "l", "s">> >>
MlPoints == << <<"t", "r", "e", "e", "s">> >>
MlGoals == << <<"l", "e", "a", "r", "n">> >>
MlTags == << <<"m", "l">>, <<"p", "y", "t", "h", "o", "n">> >>

FullData ==
    [title |-> PyStr(MlTitle), summary_text |-> PyStr(MlText),
     main_topics |-> PyList(MlTopics), key_points |-> PyList(MlPoints),
     user_goals |-> PyList(MlGoals), sentiment |-> PyStr(Positive),
     tags |-> PyList(MlTags)]

\* A sentiment that is none of the three the prompt lists.
Mixed == <<"m", "i", "x", "e", "d">>

\* What the summary model may do: raise; return text that is no JSON; return
\* JSON that is no object; return an object with every key, with no key,
\* with a null title, or with a sentiment of its own.
SummaryOutputs ==
    { SummaryRaises, SummaryGarbage, SummaryJson(NotADict),
      SummaryJson(Dict(DataKeys, FullData)),
      SummaryJson(Dict({}, FullData)),
      SummaryJson(Dict(DataKeys, [FullData EXCEPT !.title = PyNone])),
      SummaryJson(Dict(DataKeys, [FullData EXCEPT !.sentiment = PyStr(Mixed)])) }

(***************************************************************************)
(* Spec: chat() calls on the threads.                                      *)
(***************************************************************************)
\* One node of the graph run of thread t.
GraphStep(t) ==
    \/ \E resp \in FirstResponses : ChatbotStep(t, resp)
    \/ \E outcomes \in Outcomes(PendingCalls(t)) : ToolsStep(t, outcomes)
    \/ \E resp \in (IF AwaitsNarration(t) THEN FinalResponses ELSE {Raises}),
             out \in (IF SummaryDue(t) THEN SummaryOutputs ELSE {SummaryRaises}),
             tick \in (IF SummaryDue(t) THEN Nows(clock) ELSE {clock}) :
          ProcessStep(t, resp, out, tick)

Next ==
    \E t \in ThreadIds :
        \/ \E message \in UserInputs, auto_summarize \in BOOLEAN :
              Chat(t, message, auto_summarize)
        \/ GraphStep(t)

Spec == Init /\ [][Next]_vars

\* A graph run that has started is carried on to its end: chat() is a
\* synchronous call and no node waits for anything but the model and the tools.
FairSpec == Spec /\ \A t \in ThreadIds : WF_vars(GraphStep(t))

(***************************************************************************)
(* NoToolsSpec: chat() calls on a ChatBot built with an empty tool list     *)
(* (TAVILY_API_KEY unset when _setup_tools runs): the graph has no node     *)
(* "tools" and one edge from "chatbot" to "process_response".               *)
(***************************************************************************)
\* add_edge("chatbot", "process_response")
NodeAfterChatbotNoTools(messages) == "process_response"

\* The node "chatbot" and the edge after it; the model answers as it likes.
ChatbotStepNoTools(t, resp) ==
    /\ pc[t] = "chatbot"
    /\ turn[t].phase = "running"
    /\ \E node \in {_chatbot_node(memory[t], resp, CallIdBase(uuid[t] + 1))} :
       \E r \in {add_messages(memory[t], <<node.message>>, uuid[t])} :
           /\ memory' = [memory EXCEPT ![t] = r.messages]
           /\ uuid' = [uuid EXCEPT ![t] = r.uuid]
           /\ pc' = [pc EXCEPT ![t] = NodeAfterChatbotNoTools(r.messages)]
    /\ turn' = [turn EXCEPT ![t].model_calls = @ + 1]
    /\ UNCHANGED <<sends, chatRet, dispatch, files, saved, clock, ret>>

NoToolsNext ==
    \E t \in ThreadIds :
        \/ \E message \in UserInputs, auto_summarize \in BOOLEAN :
              Chat(t, message, auto_summarize)
        \/ \E resp \in FirstResponses : ChatbotStepNoTools(t, resp)
        \/ \E resp \in (IF AwaitsNarration(t) THEN FinalResponses ELSE {Raises}),
                 out \in (IF SummaryDue(t) THEN SummaryOutputs ELSE {SummaryRaises}),
                 tick \in (IF SummaryDue(t) THEN Nows(clock) ELSE {clock}) :
              ProcessStep(t, resp, out, tick)

NoToolsSpec == Init /\ [][NoToolsNext]_vars

(***************************************************************************)
(* LongSpec: chat() calls on a thread that has had nine turns answered     *)
(* directly, none of which reached the threshold of the summary, beside a  *)
(* thread that has had eight.                                              *)
(***************************************************************************)
\* The checkpointed log after n chat("hi") calls that were answered directly.
Turns(n) ==
    [i \in 1..(2 * n) |->
        IF i % 2 = 1 THEN [HumanMessage(<<"h", "i">>) EXCEPT !.id = i]
        ELSE [AIMessage(AnswerText, <<>>, "") EXCEPT !.id = i]]

LongInit ==
    /\ memory = [t \in ThreadIds |->
                    IF t = "t1" THEN Turns((message_threshold \div 2) - 1)
                    ELSE Turns((message_threshold \div 2) - 2)]
    /\ pc = [t \in ThreadIds |-> "idle"]
    /\ uuid = [t \in ThreadIds |-> Len(memory[t])]
    /\ sends = 0
    /\ turn = [t \in ThreadIds |-> NoTurn]
    /\ chatRet = [t \in ThreadIds |-> NoReturn]
    /\ dispatch = NoDispatch
    /\ files = [t \in ThreadIds |-> NoFile]
    /\ saved = [t \in ThreadIds |-> None]
    /\ clock = 0
    /\ ret = NoCall

\* The calls of the client are on the thread of nine turns.
LongNext ==
    \/ \E message \in UserInputs, auto_summarize \in BOOLEAN :
          Chat("t1", message, auto_summarize)
    \/ GraphStep("t1")

LongSpec == LongInit /\ [][LongNext]_vars

(***************************************************************************)
(* ChatBot.stream_chat: a generator.  graph.stream(stream_mode="values")   *)
(* gives the state after the input and after every node, each after its    *)
(* checkpoint was written; stream_chat yields the content of the last       *)
(* message of each state that has one.  The graph runs on only while the    *)
(* consumer asks for the next chunk.                                        *)
(***************************************************************************)
\* "Error: Invalid message"
StreamInvalidText == <<"E", "r", "r", "o", "r">>

\* if hasattr(last_message, 'content') and last_message.content: yield
Yielded(chunks, messages) ==
    IF messages # <<>> /\ Last(messages).content # <<>>
    THEN Append(chunks, Last(messages).content)
    ELSE chunks

\* stream_chat(message, thread_id) up to the first chunk.
StreamChat(t, message) ==
    /\ pc[t] = "idle"
    /\ sends < MaxSends
    /\ sends' = sends + 1
    /\ LET sanitized_message == sanitize_user_input(message)
           started == [phase |-> "streaming", auto |-> FALSE, entry |-> memory[t],
                       model_calls |-> 0, tool_runs |-> 0, chunks |-> <<>>]
       IN  IF sanitized_message = <<>>
           THEN /\ turn' = [turn EXCEPT ![t] = [started EXCEPT !.phase = "stream_rejected",
                                                              !.chunks = <<StreamInvalidText>>]]
                /\ UNCHANGED <<memory, pc, uuid>>
           ELSE \E r \in {add_messages(memory[t], <<HumanMessage(sanitized_message)>>, uuid[t])} :
                    /\ memory' = [memory EXCEPT ![t] = r.messages]
                    /\ uuid' = [uuid EXCEPT ![t] = r.uuid]
                    /\ pc' = [pc EXCEPT ![t] = "chatbot"]
                    /\ turn' = [turn EXCEPT ![t] =
                                  [started EXCEPT !.chunks = Yielded(<<>>, r.messages)]]
    /\ UNCHANGED <<chatRet, dispatch, files, saved, clock, ret>>

\* The node "chatbot" of a streamed run.
StreamChatbotStep(t, resp) ==
    /\ pc[t] = "chatbot"
    /\ turn[t].phase = "streaming"
    /\ \E node \in {_chatbot_node(memory[t], resp, CallIdBase(uuid[t] + 1))} :
       \E r \in {add_messages(memory[t], <<node.message>>, uuid[t])} :
           /\ memory' = [memory EXCEPT ![t] = r.messages]
           /\ uuid' = [uuid EXCEPT ![t] = r.uuid]
           /\ pc' = [pc EXCEPT ![t] = NodeAfterChatbot(r.messages)]
           /\ turn' = [turn EXCEPT ![t].model_calls = @ + 1,
                                   ![t].chunks = Yielded(@, r.messages)]
    /\ UNCHANGED <<sends, chatRet, dispatch, files, saved, clock, ret>>

\* The node "tools" of a streamed run.
StreamToolsStep(t, outcomes) ==
    /\ pc[t] = "tools"
    /\ turn[t].phase = "streaming"
    /\ \E node \in {ToolExecutionNode(memory[t], outcomes)} :
       \E r \in {add_messages(memory[t], node.messages, uuid[t])} :
           /\ memory' = [memory EXCEPT ![t] = r.messages]
           /\ uuid' = [uuid EXCEPT ![t] = r.uuid]
           /\ turn' = [turn EXCEPT ![t].tool_runs = @ + 1,
                                   ![t].chunks = Yielded(@, r.messages)]
    /\ pc' = [pc EXCEPT ![t] = NodeAfterTools]
    /\ UNCHANGED <<sends, chatRet, dispatch, files, saved, clock, ret>>

\* The node "process_response" of a streamed run and the end of the stream.
StreamProcessStep(t, resp) ==
    /\ pc[t] = "process_response"
    /\ turn[t].phase = "streaming"
    /\ \E node \in {_process_response_node(memory[t], resp, CallIdBase(uuid[t] + 1))} :
       \E r \in {add_messages_in_place(node.messages, uuid[t])} :
           /\ memory' = [memory EXCEPT ![t] = r.messages]
           /\ uuid' = [uuid EXCEPT ![t] = r.uuid]
           /\ turn' = [turn EXCEPT ![t].phase = "streamed",
                                   ![t].model_calls = IF node.invoked THEN @ + 1 ELSE @,
                                   ![t].chunks = Yielded(@, r.messages)]
    /\ pc' = [pc EXCEPT ![t] = "idle"]
    /\ UNCHANGED <<sends, chatRet, dispatch, files, saved, clock, ret>>

\* The consumer has taken a chunk and takes no more: the generator stays
\* suspended at its yield and the graph runs no further.
Abandon(t) ==
    /\ pc[t] # "idle"
    /\ turn[t].phase = "streaming"
    /\ Last(memory[t]).content # <<>>
    /\ pc' = [pc EXCEPT ![t] = "idle"]
    /\ turn' = [turn EXCEPT ![t].phase = "abandoned"]
    /\ UNCHANGED <<memory, uuid, sends, chatRet, dispatch, files, saved, clock, ret>>

StreamStep(t) ==
    \/ \E resp \in FirstResponses : StreamChatbotStep(t, resp)
    \/ \E outcomes \in Outcomes(PendingCalls(t)) : StreamToolsStep(t, outcomes)
    \/ \E resp \in (IF AwaitsNarration(t) THEN FinalResponses ELSE {Raises}) :
          StreamProcessStep(t, resp)
    \/ Abandon(t)

StreamNext ==
    \E t \in ThreadIds :
        \/ \E message \in UserInputs : StreamChat(t, message)
        \/ StreamStep(t)

StreamSpec == Init /\ [][StreamNext]_vars

(***************************************************************************)
(* DispatchSpec: ToolExecutionNode called directly, once, on a state.       *)
(***************************************************************************)
DispatchInputs ==
    { <<>>, <<HumanMessage(<<"h", "i">>)>>, <<AIMessage(AnswerText, <<>>, "")>> }
    \cup { <<HumanMessage(<<"h", "i">>), AIMessage(<<>>, ToolCalls(names, 0), "")>> :
             names \in Batches(MaxCalls) }

DirectDispatch(messages, outcomes) ==
    /\ ~dispatch.called
    /\ LET node == ToolExecutionNode(messages, outcomes)
       IN  dispatch' = [called |-> TRUE, messages |-> messages, outcomes |-> outcomes,
                        raised |-> node.raised, result |-> node.messages]
    /\ UNCHANGED <<memory, pc, uuid, sends, turn, chatRet, files, saved, clock, ret>>

DispatchNext ==
    \E messages \in DispatchInputs :
        \E outcomes \in (IF messages = <<>> THEN {<<>>}
                         ELSE Outcomes(Last(messages).tool_calls)) :
            DirectDispatch(messages, outcomes)

DispatchSpec == Init /\ [][DispatchNext]_vars


(***************************************************************************)
(* EngineSpec: SummaryGenerator.generate_summary called directly, once.    *)
(***************************************************************************)
\* The messages of the logs handed to the generator.
EngineMessages ==
    { HumanMessage(<<"h", "i">>), AIMessage(AnswerText, <<>>, ""),
      ToolMessage(format_tool_result(ToolResult), "tavily_search", 1, FALSE) }

EngineLogs == UNION { [1..n -> EngineMessages] : n \in 0..MaxLog }

GenerateDirect(messages, t, out, tick) ==
    /\ ret.op = "none"
    /\ \E r \in {generate_summary(messages, t, out, isoformat(tick))} :
          ret' = [op |-> "generate", thread |-> t, messages |-> messages, out |-> out,
                  now |-> isoformat(tick), raised |-> r.raised, value |-> r.value]
    /\ UNCHANGED <<memory, pc, uuid, sends, turn, chatRet, dispatch, files, saved, clock>>

EngineNext ==
    \E messages \in EngineLogs, t \in ThreadIds, out \in SummaryOutputs, tick \in 0..MaxClock :
        GenerateDirect(messages, t, out, tick)

EngineSpec == Init /\ [][EngineNext]_vars

(***************************************************************************)
(* StoreSpec: the summary storage and ChatBot.generate_summary, on threads *)
(* that have had no conversation or one turn of conversation.              *)
(***************************************************************************)
\* The checkpointed log of a thread after chat("hi") was answered directly.
OneTurnLog ==
    << [HumanMessage(<<"h", "i">>) EXCEPT !.id = 1],
       [AIMessage(AnswerText, <<>>, "") EXCEPT !.id = 2] >>

StoreInit ==
    /\ memory \in [ThreadIds -> {<<>>, OneTurnLog}]
    /\ pc = [t \in ThreadIds |-> "idle"]
    /\ uuid = [t \in ThreadIds |-> Len(memory[t])]
    /\ sends = 0
    /\ turn = [t \in ThreadIds |-> NoTurn]
    /\ chatRet = [t \in ThreadIds |-> NoReturn]
    /\ dispatch = NoDispatch
    /\ files = [t \in ThreadIds |-> NoFile]
    /\ saved = [t \in ThreadIds |-> None]
    /\ clock = 0
    /\ ret = NoCall

\* "Soup", "about soup", "food", "salt", "cook", "cooking"
SoupTitle == <<"S", "o", "u", "p">>
SoupText == <<"a", "b", "o", "u", "t", " ", "s", "o", "u", "p">>
SoupTopics == << <<"f", "o", "o", "d">> >>
SoupPoints == << <<"s", "a", "l", "t">> >>
SoupGoals == << <<"c", "o", "o", "k">> >>
SoupTags == << <<"c", "o", "o", "k", "i", "n", "g">> >>

\* The summaries a caller saves: every field has a value of its type.
ValidSummaries(t, now) ==
    { ConversationSummary(t, PyStr(MlTitle), PyList(MlTopics), PyList(MlPoints),
                          PyList(MlGoals), now, 2, PyStr(Positive), PyList(MlTags),
                          PyStr(MlText)),
      ConversationSummary(t, PyStr(SoupTitle), PyList(SoupTopics), PyList(SoupPoints),
                          PyList(SoupGoals), now, 4, PyStr(Neutral), PyList(SoupTags),
                          PyStr(SoupText)) }

\* The created_at of the summaries handed to save_summary: an older and a
\* newer one.
SavedTicks == {0, 1}

\* "ML", "soup", "trees" (a key point), "cook" (a goal, and part of a tag)
Queries ==
    { <<"M", "L">>, <<"s", "o", "u", "p">>, <<"t", "r", "e", "e", "s">>,
      <<"l", "e", "a", "r", "n">> }

\* The outputs of the summary model in StoreSpec.
StoreOutputs ==
    { SummaryJson(Dict(DataKeys, FullData)),
      SummaryJson(Dict(DataKeys, [FullData EXCEPT !.title = PyNone])) }

\* ChatBot.generate_summary(thread_id)
GenerateSummary(t, out, tick) ==
    /\ \E r \in {facade_generate_summary(memory, files, t, out, tick)} :
          /\ files' = r.files
          /\ saved' = IF r.generated THEN [saved EXCEPT ![t] = r.value] ELSE saved
          /\ clock' = IF r.generated THEN tick ELSE clock
          /\ ret' = [op |-> "generate_summary", thread |-> t, value |-> r.value]
    /\ UNCHANGED <<memory, pc, uuid, sends, turn, chatRet, dispatch>>

\* The thresholds a caller passes: none, the length of a one-turn log, one
\* more, the default.
Thresholds == {0, Len(OneTurnLog), Len(OneTurnLog) + 1, message_threshold}

\* ChatBot.auto_summarize_if_needed(thread_id, message_threshold)
AutoSummarize(t, threshold, out, tick) ==
    /\ \E r \in {auto_summarize_if_needed(memory, files, t, threshold, out, tick)} :
          /\ files' = r.files
          /\ saved' = IF r.generated THEN [saved EXCEPT ![t] = r.value] ELSE saved
          /\ clock' = IF r.generated THEN tick ELSE clock
          /\ ret' = [op |-> "auto_summarize", thread |-> t, threshold |-> threshold,
                     before |-> files, value |-> r.value, generated |-> r.generated]
    /\ UNCHANGED <<memory, pc, uuid, sends, turn, chatRet, dispatch>>

\* SummaryStorage.save_summary(summary)
Save(summary) ==
    /\ files' = save_summary(files, summary)
    /\ saved' = [saved EXCEPT ![summary.thread_id] = Some(summary)]
    /\ ret' = [op |-> "save", thread |-> summary.thread_id, value |-> TRUE]
    /\ UNCHANGED <<memory, pc, uuid, sends, turn, chatRet, dispatch, clock>>

\* SummaryStorage.load_summary(thread_id)
Load(t) ==
    /\ ret' = [op |-> "load", thread |-> t, value |-> load_summary(files, t)]
    /\ UNCHANGED <<memory, pc, uuid, sends, turn, chatRet, dispatch, files, saved, clock>>

\* SummaryStorage.delete_summary(thread_id)
Delete(t) ==
    /\ files' = delete_summary(files, t)
    /\ saved' = [saved EXCEPT ![t] = None]
    /\ ret' = [op |-> "delete", thread |-> t, value |-> TRUE]
    /\ UNCHANGED <<memory, pc, uuid, sends, turn, chatRet, dispatch, clock>>

\* SummaryStorage.list_summaries()
List(listing) ==
    /\ ret' = [op |-> "list", listing |-> listing, value |-> list_summaries(files, listing)]
    /\ UNCHANGED <<memory, pc, uuid, sends, turn, chatRet, dispatch, files, saved, clock>>

\* SummaryStorage.search_summaries(query)
Search(listing, query) ==
    /\ \E r \in {search_summaries(files, listing, query)} :
          ret' = [op |-> "search", query |-> query, raised |-> r.raised, value |-> r.value]
    /\ UNCHANGED <<memory, pc, uuid, sends, turn, chatRet, dispatch, files, saved, clock>>

StoreNext ==
    \/ \E t \in ThreadIds, out \in StoreOutputs, tick \in Nows(clock) :
          \/ GenerateSummary(t, out, tick)
          \/ \E threshold \in Thresholds : AutoSummarize(t, threshold, out, tick)
    \/ \E t \in ThreadIds, tick \in SavedTicks : \E summary \in ValidSummaries(t, isoformat(tick)) :
          Save(summary)
    \/ \E t \in ThreadIds : Load(t) \/ Delete(t)
    \/ \E listing \in Listings(files) :
          \/ List(listing)
          \/ \E query \in Queries : Search(listing, query)

StoreSpec == StoreInit /\ [][StoreNext]_vars


(***************************************************************************)
(* The tool dispatcher (DispatchSpec).                                     *)
(***************************************************************************)
\* The tool calls handed to the direct call.
Requests ==
    IF dispatch.called /\ dispatch.messages # <<>> /\ Last(dispatch.messages).type = "ai"
    THEN Last(dispatch.messages).tool_calls
    ELSE <<>>

\* Call i of the batch fails: its tool is not registered, or the tool raises.
Fails(i) ==
    \/ Requests[i].name \notin tools_by_name
    \/ dispatch.outcomes[i] = "raise"

\* C1: the dispatcher returns one result per request and result i answers
\* request i, whichever calls fail.
C1_TurnOrder ==
    Requests # <<>> =>
        /\ Len(dispatch.result) = Len(Requests)
        /\ \A i \in 1..Len(Requests) : dispatch.result[i].tool_call_id = Requests[i].id

\* C4: the dispatcher does not raise and returns one result per request; the
\* result of a request is flagged as an error exactly when the call fails, and
\* the result of every other call is the formatted result of the tool.
C4_ToolIsolation ==
    Requests # <<>> =>
        /\ ~dispatch.raised
        /\ Len(dispatch.result) = Len(Requests)
        /\ \A i \in 1..Len(Requests) :
              LET answers == {k \in 1..Len(dispatch.result) :
                                 dispatch.result[k].tool_call_id = Requests[i].id}
              IN  /\ Cardinality(answers) = 1
                  /\ \A k \in answers :
                        /\ dispatch.result[k].type = "tool"
                        /\ dispatch.result[k].is_error = Fails(i)
                        /\ ~Fails(i) =>
                              dispatch.result[k].content = format_tool_result(ToolResult)
        /\ Cardinality({k \in 1..Len(dispatch.result) : dispatch.result[k].is_error})
              = Cardinality({i \in 1..Len(Requests) : Fails(i)})

\* A batch of three calls of which exactly the first one raises.
C4_Witness ==
    /\ Len(Requests) = 3
    /\ {i \in 1..3 : Fails(i)} = {1}
    /\ dispatch.outcomes[1] = "raise"
    /\ Cardinality({k \in 1..Len(dispatch.result) : dispatch.result[k].is_error}) = 1
    /\ Cardinality({k \in 1..Len(dispatch.result) : ~dispatch.result[k].is_error}) = 2

(***************************************************************************)
(* The graph (Spec, FairSpec).                                             *)
(***************************************************************************)
NumAssistant(log) == Cardinality({i \in 1..Len(log) : log[i].type = "ai"})

\* C2, as claimed: a chat() call that has run the graph to its end has added
\* exactly one assistant message to the log it found.
C2_ExactlyOneAssistantTurn ==
    \A t \in ThreadIds :
        turn[t].phase = "done" =>
            NumAssistant(memory[t]) = NumAssistant(turn[t].entry) + 1

\* C2, amended: the log at the end is the log at entry, the user message and
\* the first answer; if that answer carries no tool calls (or is the error
\* answer of a failed model call) it is the only new assistant message;
\* if it carries tool calls there are two new assistant messages, and the
\* newest message of the log is the second one.
C2_OneFinalAssistantTurn ==
    \A t \in ThreadIds :
        turn[t].phase = "done" =>
            LET log == memory[t]
                k == Len(turn[t].entry)
            IN  /\ Len(log) >= k + 2
                /\ SubSeq(log, 1, k) = turn[t].entry
                /\ log[k + 1].type = "human"
                /\ log[k + 2].type = "ai"
                /\ Last(log).type = "ai"
                /\ IF log[k + 2].tool_calls = <<>>
                   THEN Len(log) = k + 2
                   ELSE /\ Len(log) > k + 2
                        /\ NumAssistant(log) = NumAssistant(turn[t].entry) + 2

\* A second turn of a thread whose first answer asked for tools and whose
\* narration call raised.
C2_Witness ==
    \E t \in ThreadIds :
        /\ turn[t].phase = "done"
        /\ turn[t].entry # <<>>
        /\ memory[t][Len(turn[t].entry) + 2].tool_calls # <<>>
        /\ Last(memory[t]).name = "error"

\* C3: every graph run that has started reaches its end.
C3_Termination ==
    \A t \in ThreadIds : (pc[t] # "idle") ~> (pc[t] = "idle" /\ turn[t].phase = "done")

\* A run has ended in which a tool failed and the narration call raised.
C3_Witness ==
    \E t \in ThreadIds :
        /\ pc[t] = "idle"
        /\ turn[t].phase = "done"
        /\ turn[t].tool_runs = 1
        /\ turn[t].model_calls = 2
        /\ \E i \in 1..Len(memory[t]) : memory[t][i].is_error
        /\ Last(memory[t]).name = "error"

IsBlank(message) == \A i \in 1..Len(message) : message[i] \in Whitespace

\* C5: a chat() call with an empty or whitespace-only message returns the
\* validation error and changes nothing: no checkpoint, no graph run, no
\* model or tool call, no summary.
C5_ValidationBypass ==
    [][\A t \in ThreadIds, message \in UserInputs, auto_summarize \in BOOLEAN :
          (IsBlank(message) /\ Chat(t, message, auto_summarize)) =>
              /\ chatRet'[t] = InvalidInput
              /\ turn'[t].model_calls = 0
              /\ turn'[t].tool_runs = 0
              /\ UNCHANGED <<memory, pc, uuid, dispatch, files, saved, clock, ret>>]_vars

\* A whitespace-only message was rejected on a thread that has a history.
C5_Witness ==
    \E t \in ThreadIds :
        /\ turn[t].phase = "rejected"
        /\ chatRet[t] = InvalidInput
        /\ memory[t] # <<>>

(***************************************************************************)
(* The summary generator (EngineSpec).                                     *)
(***************************************************************************)
\* The generation failed with an exception that is no parse failure: the
\* model call raised, or the parsed output has no .get.
GenerationFailed ==
    /\ ret.messages # <<>>
    /\ \/ ret.out.kind = "raise"
       \/ ret.out.parses /\ ~ret.out.value.isdict

CapturedError == IF ret.out.kind = "raise" THEN ModelErrorText ELSE NoGetText

\* C6: generate_summary does not raise, and when the generation failed with
\* an exception that is no parse failure it returns the failure record: the
\* fixed title, negative sentiment, a key point that holds the text of the
\* exception, message_count 0.
C6_GenerateNeverRaises ==
    ret.op = "generate" =>
        /\ ~ret.raised
        /\ ret.value.thread_id = ret.thread
        /\ GenerationFailed =>
              /\ ret.value.title = PyStr(FailedTitle)
              /\ ret.value.sentiment = PyStr(Negative)
              /\ ret.value.message_count = 0
              /\ ret.value.key_points.py = "list"
              /\ \E i \in 1..Len(ret.value.key_points.l) :
                    Contains(CapturedError, ret.value.key_points.l[i])

\* The model call raised on a log of three messages and the failure record
\* came back.
C6_Witness ==
    /\ ret.op = "generate"
    /\ Len(ret.messages) = 3
    /\ ret.out.kind = "raise"
    /\ ~ret.raised
    /\ ret.value.title = PyStr(FailedTitle)

SummaryFields ==
    {"title", "main_topics", "key_points", "user_goals", "sentiment", "tags", "summary_text"}

\* C7: generate_summary returns a summary in which no field is None, and
\* whose message_count is the length of the log, or 0 for the empty log and
\* on the error path.
C7_SummaryShape ==
    ret.op = "generate" =>
        /\ ~ret.raised
        /\ \A f \in SummaryFields : ret.value[f].py # "NoneType"
        /\ ret.value.created_at # <<>>
        /\ ret.value.message_count =
              IF ret.messages = <<>> \/ GenerationFailed THEN 0 ELSE Len(ret.messages)

(***************************************************************************)
(* The summary storage (StoreSpec).                                        *)
(***************************************************************************)
\* C8: load_summary(t) returns the summary last saved for t, equal in every
\* field, and None when none was saved or the last one was deleted, whatever
\* was done to the other threads in between.
C8_StoreRoundTrip ==
    ret.op = "load" => ret.value = saved[ret.thread]

\* A load gives back the summary of a thread while another thread holds a
\* different summary.
C8_Witness ==
    /\ ret.op = "load"
    /\ ret.value # None
    /\ ret.value = saved[ret.thread]
    /\ \E u \in ThreadIds \ {ret.thread} :
          /\ saved[u] # None
          /\ saved[u][1].title # ret.value[1].title

\* q, in lower case, is part of the title, of the text, of a topic or of a tag.
IsMatch(query, summary) ==
    LET q == Lower(query)
        InStr(v) == v.py = "str" /\ Contains(q, Lower(v.s))
        InList(v) == v.py = "list" /\ \E i \in 1..Len(v.l) : Contains(q, Lower(v.l[i]))
    IN  \/ InStr(summary.title)
        \/ InStr(summary.summary_text)
        \/ InList(summary.main_topics)
        \/ InList(summary.tags)

Stored == {saved[t][1] : t \in {u \in ThreadIds : saved[u] # None}}

\* C9: search_summaries(q) returns exactly the stored summaries that match q.
C9_SearchCorrectness ==
    ret.op = "search" =>
        /\ ~ret.raised
        /\ {ret.value[i] : i \in 1..Len(ret.value)} = {s \in Stored : IsMatch(ret.query, s)}
        /\ Len(ret.value) = Cardinality({s \in Stored : IsMatch(ret.query, s)})

\* C10: list_summaries() returns exactly the stored summaries, one per
\* thread, and no entry is older than the entry after it.
C10_ListNewestFirst ==
    ret.op = "list" =>
        /\ {ret.value[i] : i \in 1..Len(ret.value)} = Stored
        /\ Len(ret.value) = Cardinality({t \in ThreadIds : saved[t] # None})
        /\ \A i \in 1..(Len(ret.value) - 1) :
              ~StrLess(ret.value[i].created_at, ret.value[i + 1].created_at)

\* Two summaries were listed, the directory gave the older one first.
C10_Witness ==
    /\ ret.op = "list"
    /\ Len(ret.value) = 2
    /\ ret.value[1].created_at # ret.value[2].created_at
    /\ ret.value[1].thread_id = ret.listing[2]

\* The threads of the summaries list_summaries() returns are all different.
OnePerThread(fs) ==
    \A listing \in Listings(fs) :
        LET l == list_summaries(fs, listing)
        IN  \A i, j \in 1..Len(l) : i # j => l[i].thread_id # l[j].thread_id

\* C11: a save or a delete for a thread leaves the file and the loaded
\* summary of every other thread as they were; after a save the thread holds
\* the summary just saved, after a delete none; the storage never holds two
\* summaries of one thread.
C11_PerKeyIsolation ==
    [][\A a \in ThreadIds :
          (ret'.op \in {"save", "delete"} /\ ret'.thread = a) =>
              /\ \A b \in ThreadIds \ {a} :
                    /\ files'[b] = files[b]
                    /\ load_summary(files', b) = load_summary(files, b)
              /\ ret'.op = "save" =>
                    load_summary(files', a) # None /\ load_summary(files', a) = saved'[a]
              /\ ret'.op = "delete" => load_summary(files', a) = None
              /\ OnePerThread(files')]_vars

\* A summary was saved over an older one of its thread while the other thread
\* holds a summary.
C11_Witness ==
    /\ ret.op = "save"
    /\ saved[ret.thread] # None
    /\ saved[ret.thread][1].created_at = isoformat(1)
    /\ \E b \in ThreadIds \ {ret.thread} :
          /\ saved[b] # None
          /\ load_summary(files, b) = saved[b]
          /\ saved[b][1].created_at = isoformat(0)

(***************************************************************************)
(* The automatic summary (StoreSpec, LongSpec).                            *)
(***************************************************************************)
\* What auto_summarize_if_needed did when the thread had a summary, and what
\* it did when it generated none.
AutoLeavesStore ==
    /\ ret.before[ret.thread] # NoFile =>
          /\ ~ret.generated
          /\ files = ret.before
          /\ ret.value = load_summary(ret.before, ret.thread)
    /\ (ret.before[ret.thread] = NoFile /\ ~ret.generated) =>
          /\ files = ret.before
          /\ ret.value = None

\* What it did when it generated a summary: the thread had none, the new one
\* is stored, the others are untouched.
AutoStores ==
    ret.generated =>
        /\ ret.before[ret.thread] = NoFile
        /\ ret.value # None
        /\ load_summary(files, ret.thread) = ret.value
        /\ \A b \in ThreadIds \ {ret.thread} : files[b] = ret.before[b]

get_summary(fs, thread_id) == load_summary(fs, thread_id)

\* C13: once a chat() call with auto_summarize has returned and the thread
\* has at least message_threshold messages, get_summary gives a summary.
C13_SummaryAvailable ==
    \A t \in ThreadIds :
        (turn[t].phase = "done" /\ turn[t].auto /\ Len(memory[t]) >= message_threshold) =>
            get_summary(files, t) # None

\* The send that brought the thread to exactly message_threshold messages
\* generated the summary.
C13_Witness ==
    \E t \in ThreadIds :
        /\ turn[t].phase = "done"
        /\ turn[t].auto
        /\ Len(turn[t].entry) < message_threshold
        /\ Len(memory[t]) = message_threshold
        /\ chatRet[t].summary_generated
        /\ get_summary(files, t) # None

(***************************************************************************)
(* The graph without tools (NoToolsSpec).                                  *)
(***************************************************************************)
\* C14: without tools no log holds a tool message, and a chat() call that
\* has run the graph leaves the log it found followed by the user message and
\* one assistant message: two messages on a fresh thread, two more on each
\* further call.
C14_NoToolsTwoTurns ==
    \A t \in ThreadIds :
        /\ \A i \in 1..Len(memory[t]) : memory[t][i].type # "tool"
        /\ turn[t].phase = "done" =>
              LET k == Len(turn[t].entry)
              IN  /\ Len(memory[t]) = k + 2
                  /\ SubSeq(memory[t], 1, k) = turn[t].entry
                  /\ memory[t][k + 1].type = "human"
                  /\ memory[t][k + 2].type = "ai"
                  /\ chatRet[t].message_count = k + 2

\* The second send on a thread, answered with tool calls nobody executes.
C14_Witness ==
    \E t \in ThreadIds :
        /\ turn[t].phase = "done"
        /\ Len(turn[t].entry) = 2
        /\ Len(memory[t]) = 4
        /\ memory[t][4].tool_calls # <<>>

(***************************************************************************)
(* Streaming (StreamSpec).                                                 *)
(***************************************************************************)
\* The log holds the whole turn: what was there, the user message, and an
\* assistant message without tool calls at the end.
CompletedTurn(log, entry) ==
    /\ Len(log) >= Len(entry) + 2
    /\ SubSeq(log, 1, Len(entry)) = entry
    /\ log[Len(entry) + 1].type = "human"
    /\ Last(log).type = "ai"
    /\ Last(log).tool_calls = <<>>

\* C15: when the consumer of stream_chat has stopped after some chunks, the
\* checkpoint of the thread is the one from before the call or holds the
\* whole turn.
C15_StreamAtomic ==
    \A t \in ThreadIds :
        turn[t].phase = "abandoned" =>
            \/ memory[t] = turn[t].entry
            \/ CompletedTurn(memory[t], turn[t].entry)

(***************************************************************************)
(* FacadeSpec: the calls of the ChatBot facade on two threads, one that has *)
(* had no conversation and one that has had one turn of it; the calls are  *)
(* whole turns, one after the other.                                       *)
(***************************************************************************)
\* What self.memory.delete(config) does.  MemorySaver belongs to langgraph:
\* the releases that can remove a thread name the method delete_thread, and
\* the lookup of `delete` raises AttributeError; a saver that has a method
\* delete removes the checkpoints of the thread.
DeleteOutcomes == {"AttributeError", "deleted"}

\* A clear_thread that removes the checkpoints of every thread.
clear_thread_all(mem, thread_id, outcome) ==
    IF outcome = "AttributeError" THEN [value |-> FALSE, memory |-> mem]
    ELSE [value |-> TRUE, memory |-> [t \in ThreadIds |-> <<>>]]

\* ChatBot.clear_thread: what it returns and the checkpoints after it.
clear_thread(mem, thread_id, outcome) ==
    IF outcome = "AttributeError" THEN [value |-> FALSE, memory |-> mem]
    ELSE [value |-> TRUE, memory |-> [mem EXCEPT ![thread_id] = <<>>]]

\* ChatBot.update_summary: what it returns and the storage after it.
update_summary(mem, fs, thread_id, out, tick) ==
    facade_generate_summary(mem, delete_summary(fs, thread_id), thread_id, out, tick)

ClearThread(t, outcome) ==
    /\ pc[t] = "idle"
    /\ sends < MaxSends
    /\ sends' = sends + 1
    /\ \E r \in {clear_thread(memory, t, outcome)} :
          /\ memory' = r.memory
          /\ turn' = [turn EXCEPT ![t] = [NoTurn EXCEPT !.phase = "cleared",
                                                       !.entry = memory[t]]]
          /\ ret' = [op |-> "clear_thread", thread |-> t, cleared |-> r.value]
    /\ UNCHANGED <<pc, uuid, chatRet, dispatch, files, saved, clock>>

\* ChatBot.generate_summary(thread_id), as one of the calls of a client.
CallGenerateSummary(t, out, tick) ==
    /\ pc[t] = "idle"
    /\ sends < MaxSends
    /\ sends' = sends + 1
    /\ \E r \in {facade_generate_summary(memory, files, t, out, tick)} :
          /\ files' = r.files
          /\ saved' = IF r.generated THEN [saved EXCEPT ![t] = r.value] ELSE saved
          /\ clock' = IF r.generated THEN tick ELSE clock
          /\ ret' = [op |-> "generate_summary", thread |-> t, value |-> r.value]
    /\ UNCHANGED <<memory, pc, uuid, turn, chatRet, dispatch>>

UpdateSummary(t, out, tick) ==
    /\ pc[t] = "idle"
    /\ sends < MaxSends
    /\ sends' = sends + 1
    /\ \E r \in {update_summary(memory, files, t, out, tick)} :
          /\ files' = r.files
          /\ saved' = [saved EXCEPT ![t] = r.value]
          /\ clock' = IF r.generated THEN tick ELSE clock
          /\ ret' = [op |-> "update_summary", thread |-> t, value |-> r.value,
                     had |-> get_summary(files, t)]
    /\ UNCHANGED <<memory, pc, uuid, turn, chatRet, dispatch>>

\* No call is under way on any thread: the calls of a client are whole turns,
\* one after the other.
Quiet == \A u \in ThreadIds : pc[u] = "idle"

\* What a client sends: a blank message and one that needs stripping.
FacadeInputs == { <<" ">>, <<" ", "h", "i", "\n">> }

\* One step of a call of the facade for thread t.  chat() is called with its
\* default auto_summarize=True (no log here reaches message_threshold), and
\* the summary model returns the full object.
FacadeStep(t) ==
    \/ \E message \in FacadeInputs, auto_summarize \in {TRUE} :
          Quiet /\ Chat(t, message, auto_summarize)
    \/ GraphStep(t)
    \/ \E message \in FacadeInputs : Quiet /\ StreamChat(t, message)
    \/ StreamStep(t)
    \/ \E outcome \in DeleteOutcomes : Quiet /\ ClearThread(t, outcome)
    \/ \E out \in {SummaryJson(Dict(DataKeys, FullData))}, tick \in Nows(clock) :
          /\ Quiet
          /\ CallGenerateSummary(t, out, tick) \/ UpdateSummary(t, out, tick)

FacadeNext == \E t \in ThreadIds : FacadeStep(t)

\* One thread has had no conversation and the other one turn of it.
FacadeInit ==
    /\ memory = [t \in ThreadIds |-> IF t = "t1" THEN <<>> ELSE OneTurnLog]
    /\ pc = [t \in ThreadIds |-> "idle"]
    /\ uuid = [t \in ThreadIds |-> Len(memory[t])]
    /\ sends = 0
    /\ turn = [t \in ThreadIds |-> NoTurn]
    /\ chatRet = [t \in ThreadIds |-> NoReturn]
    /\ dispatch = NoDispatch
    /\ files = [t \in ThreadIds |-> NoFile]
    /\ saved = [t \in ThreadIds |-> None]
    /\ clock = 0
    /\ ret = NoCall

FacadeSpec == FacadeInit /\ [][FacadeNext]_vars

\* The three sentiments of the prompt of the summary.
Sentiments == {PyStr(Positive), PyStr(Negative), PyStr(Neutral)}

\* C19: every summary that generate_summary returns has one of the three
\* sentiments, whatever the model returns.
C19_SentimentEnum ==
    ret.op = "generate" => ret.value.sentiment \in Sentiments

(***************************************************************************)
(* The tool results in the log (Spec).                                     *)
(***************************************************************************)
HasPendingCalls(m) == m.type = "ai" /\ m.tool_calls # <<>>

\* Message j of the log is the most recent assistant message with tool calls
\* before message i.
MostRecentPending(log, j, i) ==
    /\ j < i
    /\ HasPendingCalls(log[j])
    /\ \A k \in (j + 1)..(i - 1) : ~HasPendingCalls(log[k])

\* C18: every tool message of a log carries the id of one of the tool calls
\* of the most recent assistant message with tool calls before it.
C18_ToolResultCorrelation ==
    \A t \in ThreadIds : \A i \in 1..Len(memory[t]) :
        memory[t][i].type = "tool" =>
            \E j \in 1..Len(memory[t]) :
                /\ MostRecentPending(memory[t], j, i)
                /\ \E c \in 1..Len(memory[t][j].tool_calls) :
                      memory[t][j].tool_calls[c].id = memory[t][i].tool_call_id

\* The tools node has answered a batch with a result and an error message.
C18_Witness ==
    \E t \in ThreadIds : \E i, k \in 1..Len(memory[t]) :
        /\ memory[t][i].type = "tool" /\ ~memory[t][i].is_error
        /\ memory[t][k].type = "tool" /\ memory[t][k].is_error
        /\ memory[t][k].tool_call_id # memory[t][i].tool_call_id

\* The answer that ends a turn with tools: what the model said of the tool
\* result, or the answer of the node when that call of the model raised.
IsNarration(m) ==
    /\ m.type = "ai"
    /\ \/ m.name = "error" /\ m.content = FoundButPrefix \o ModelErrorText
       \/ m.name = "" /\ \E resp \in FinalResponses :
                            resp.kind # "raise" /\ m.content = resp.content

\* C20: at the end of a turn whose tools ran, for a batch of N >= 1 tool
\* calls, the log is the log at entry, the user message, the answer with the
\* N tool calls, N - 1 tool messages and, in the place of the newest tool
\* message, the narration, which is the newest message of the log.
C20_FinalizingReplacesToolResult ==
    \A t \in ThreadIds :
        (turn[t].phase = "done" /\ turn[t].tool_runs = 1) =>
            LET log == memory[t]
                k == Len(turn[t].entry)
                N == Len(log[k + 2].tool_calls)
            IN  /\ N >= 1
                /\ Len(log) = k + 2 + N
                /\ \A i \in (k + 3)..(Len(log) - 1) : log[i].type = "tool"
                /\ IsNarration(Last(log))

\* A turn with a batch of more than one tool call has ended with the
\* narration of the model after the tool messages that stay.
C20_Witness ==
    \E t \in ThreadIds :
        /\ turn[t].phase = "done" /\ turn[t].tool_runs = 1
        /\ Len(memory[t]) >= 4
        /\ memory[t][Len(memory[t]) - 1].type = "tool"
        /\ Last(memory[t]).type = "ai" /\ Last(memory[t]).name = ""

(***************************************************************************)
(* The threads of the facade (FacadeSpec).                                 *)
(***************************************************************************)
\* C16: a step of chat, stream_chat, clear_thread, generate_summary or
\* update_summary for one thread leaves the history and the stored summary of
\* every other thread as they were.
C16_ThreadIsolation ==
    [][\A a \in ThreadIds :
          FacadeStep(a) =>
              \A b \in ThreadIds \ {a} :
                  /\ get_conversation_history(memory', b) = get_conversation_history(memory, b)
                  /\ files'[b] = files[b]
                  /\ get_summary(files', b) = get_summary(files, b)]_vars

\* A chat() call on one thread has ended while the other thread holds a
\* history and a stored summary.
C16_Witness ==
    \E a \in ThreadIds : \E b \in ThreadIds \ {a} :
        /\ turn[a].phase = "done"
        /\ memory[b] # <<>>
        /\ get_summary(files, b) # None
        /\ get_summary(files, a) = None

\* C17: once clear_thread has returned the history of the thread is empty,
\* and the history of a thread on which a send has ended is not.
C17_ExplicitDeletionOnly ==
    \A t \in ThreadIds :
        /\ turn[t].phase = "cleared" => get_conversation_history(memory, t) = <<>>
        /\ turn[t].phase \in {"done", "streamed"} =>
              get_conversation_history(memory, t) # <<>>

(***************************************************************************)
(* A failure of the model (Spec).                                          *)
(***************************************************************************)
\* The answer of the node "chatbot" when the model raised.
ErrorAnswer == AIMessage(SorryPrefix \o ModelErrorText, <<>>, "error")

\* The first answer of the turn of thread t is the error answer.
FirstCallFailed(t) ==
    /\ turn[t].phase \in {"running", "done"}
    /\ Len(memory[t]) >= Len(turn[t].entry) + 2
    /\ memory[t][Len(turn[t].entry) + 2].name = "error"

\* C21: when the first call of the model in a turn raises, the node adds the
\* error answer, whose content holds the text of the failure, and the graph
\* goes on to "process_response"; no tool runs, the model is not called
\* again, and chat() returns the error answer as an ordinary result.
C21_ModelFailureEndsTurn ==
    /\ [][\A t \in ThreadIds :
             ChatbotStep(t, Raises) =>
                 /\ pc'[t] = "process_response"
                 /\ memory'[t] = Append(memory[t], [ErrorAnswer EXCEPT !.id = uuid'[t]])]_vars
    /\ [](\A t \in ThreadIds :
             FirstCallFailed(t) =>
                 /\ turn[t].tool_runs = 0
                 /\ turn[t].model_calls = 1
                 /\ pc[t] \in {"process_response", "idle"}
                 /\ turn[t].phase = "done" =>
                       /\ memory[t] = SubSeq(memory[t], 1, Len(turn[t].entry) + 1)
                                         \o <<[ErrorAnswer EXCEPT !.id = uuid[t]]>>
                       /\ chatRet[t].kind = "ok"
                       /\ chatRet[t].response = SorryPrefix \o ModelErrorText
                       /\ chatRet[t].tool_calls = 0)

\* A chat() call whose model call raised has returned.
C21_Witness ==
    \E t \in ThreadIds :
        /\ FirstCallFailed(t)
        /\ turn[t].phase = "done"
        /\ Last(memory[t]).content = SorryPrefix \o ModelErrorText
        /\ chatRet[t].kind = "ok"

(***************************************************************************)
(* The chunks of a stream (StreamSpec).                                    *)
(***************************************************************************)
\* C22: every chunk that stream_chat has yielded for a valid message is the
\* content of an assistant message added to the log in this turn; the text of
\* the user and the content of a tool message are no chunks.
C22_StreamYieldsAssistantContent ==
    \A t \in ThreadIds :
        turn[t].phase \in {"streaming", "streamed", "abandoned"} =>
            \A i \in 1..Len(turn[t].chunks) :
                \E j \in (Len(turn[t].entry) + 1)..Len(memory[t]) :
                    /\ memory[t][j].type = "ai"
                    /\ memory[t][j].content = turn[t].chunks[i]

(***************************************************************************)
(* CapSpec: the first chat() call of a thread, with messages around the    *)
(* cap of sanitize_user_input.                                             *)
(***************************************************************************)
\* a characters of whitespace
Pad(a) == [i \in 1..a |-> IF i % 2 = 1 THEN " " ELSE "\n"]

\* A text of n characters that begins and ends with a letter and, from three
\* characters on, holds a space.
Body(n) ==
    [i \in 1..n |-> IF i = 2 /\ n >= 3 THEN " " ELSE IF i % 2 = 1 THEN "a" ELSE "b"]

BodyLengths ==
    {0, 1, 3, max_length - 1, max_length, max_length + 1, max_length + 2}

\* What the user types: the text between a and b characters of whitespace.
CapInput(a, n, b) == Pad(a) \o Body(n) \o Pad(b)

\* The message the user is about to send on thread t1, a new thread.
CapInit ==
    /\ memory = [t \in ThreadIds |-> <<>>]
    /\ pc = [t \in ThreadIds |-> "idle"]
    /\ uuid = [t \in ThreadIds |-> 0]
    /\ sends = 0
    /\ turn = [t \in ThreadIds |-> NoTurn]
    /\ chatRet = [t \in ThreadIds |-> NoReturn]
    /\ dispatch = NoDispatch
    /\ files = [t \in ThreadIds |-> NoFile]
    /\ saved = [t \in ThreadIds |-> None]
    /\ clock = 0
    /\ \E a \in 0..MaxPad, n \in BodyLengths, b \in 0..MaxPad :
          ret = [op |-> "input", lead |-> a, body |-> n, trail |-> b]

CapNext ==
    \/ \E auto_summarize \in BOOLEAN :
          /\ turn["t1"].phase = "none"
          /\ Chat("t1", CapInput(ret.lead, ret.body, ret.trail), auto_summarize)
    \/ GraphStep("t1")

CapSpec == CapInit /\ [][CapNext]_vars

\* C23: chat() trims the message; a trimmed message of at most max_length
\* characters is the content of the user message as it is, a longer one gives
\* its first max_length characters followed by the marker, so that max_length
\* characters of the message are kept; a message of whitespace is rejected.
C23_SanitizationCap ==
    (ret.op = "input" /\ turn["t1"].phase # "none") =>
        IF ret.body = 0 THEN turn["t1"].phase = "rejected" /\ memory["t1"] = <<>>
        ELSE /\ memory["t1"] # <<>>
             /\ memory["t1"][1].type = "human"
             /\ IF ret.body <= max_length
                THEN memory["t1"][1].content = Body(ret.body)
                ELSE /\ memory["t1"][1].content
                           = SubSeq(Body(ret.body), 1, max_length) \o Ellipsis
                     /\ Len(memory["t1"][1].content) - Len(Ellipsis) = max_length

\* A message of more than max_length characters between whitespace was cut:
\* the user message of the log is max_length characters and the marker.
C23_Witness ==
    /\ ret.op = "input" /\ ret.body > max_length /\ ret.lead > 0 /\ ret.trail > 0
    /\ turn["t1"].phase = "done"
    /\ memory["t1"][1].type = "human"
    /\ Len(memory["t1"][1].content) = max_length + Len(Ellipsis)
    /\ SubSeq(memory["t1"][1].content, max_length + 1, max_length + 3) = Ellipsis

(***************************************************************************)
(* The request of the narration (Spec).                                    *)
(***************************************************************************)
\* What _process_response_node is about to send to the model for thread t;
\* the request does not depend on what the model answers.
SynthesisRequest(t) == _process_response_node(memory[t], Raises, 0).request

\* The ids of the answer that asked for the tools in this turn and of the
\* tool messages that follow it.
BatchIds(t) ==
    {memory[t][j].id : j \in (Len(turn[t].entry) + 2)..Len(memory[t])}

\* C24: for a batch of any size, the request of the narration is the log up
\* to the user message of the turn, without the answer that asked for the
\* tools and without the tool messages of the batch, followed by one more
\* user message.
C24_SynthesisRequest ==
    \A t \in ThreadIds :
        AwaitsNarration(t) =>
            LET request == SynthesisRequest(t)
                k == Len(turn[t].entry)
            IN  /\ Len(request) = k + 2
                /\ SubSeq(request, 1, k + 1) = SubSeq(memory[t], 1, k + 1)
                /\ Last(request).type = "human"
                /\ \A i \in 1..Len(request) : request[i].id \notin BatchIds(t)

(***************************************************************************)
(* One round trip in a turn (Spec).                                        *)
(***************************************************************************)
\* The tool calls that the last message of the log of thread t carries.
NarrationCalls(t) == {Last(memory[t]).tool_calls[c].id : c \in 1..Len(Last(memory[t]).tool_calls)}

\* C25: a chat() call calls the model at most twice, once in "chatbot" and
\* at most once in "process_response", and runs the tools node at most once;
\* after "tools" the graph goes to "process_response" and from there to its
\* end, never back to "chatbot"; the tool calls of the narration stay without
\* a tool message.
C25_OneRoundTrip ==
    /\ [](\A t \in ThreadIds :
             /\ turn[t].model_calls <= 2
             /\ turn[t].tool_runs <= 1
             /\ turn[t].model_calls = 2 => turn[t].tool_runs = 1
             /\ (turn[t].phase = "done" /\ turn[t].tool_runs = 1) =>
                   \A i \in 1..Len(memory[t]) :
                       memory[t][i].type = "tool" =>
                           memory[t][i].tool_call_id \notin NarrationCalls(t))
    /\ [][\A t \in ThreadIds :
             /\ pc[t] = "tools" => pc'[t] \in {"tools", "process_response"}
             /\ pc[t] = "process_response" => pc'[t] \in {"process_response", "idle"}]_vars

\* A turn has ended with a narration that asks for a tool, which was not run.
C25_Witness ==
    \E t \in ThreadIds :
        /\ turn[t].phase = "done"
        /\ turn[t].model_calls = 2
        /\ turn[t].tool_runs = 1
        /\ Last(memory[t]).type = "ai"
        /\ Last(memory[t]).tool_calls # <<>>
        /\ chatRet[t].tool_calls = 1

(***************************************************************************)
(* LoopSpec: the loop of ToolExecutionNode.__call__, call by call, on a    *)
(* batch of up to max_parallel + 1 tool calls.  dispatch holds the locals  *)
(* of __call__: the calls, the index of the next call, the calls that are   *)
(* being executed, the two lists, and what __call__ has returned.           *)
(***************************************************************************)
\* max_parallel of ToolExecutionNode.__init__
max_parallel == 5

LoopBatches == UNION {[1..k -> {"tavily_search", "calculator"}] : k \in 1..(max_parallel + 1)}

LoopInit ==
    /\ memory = [t \in ThreadIds |-> <<>>]
    /\ pc = [t \in ThreadIds |-> "idle"]
    /\ uuid = [t \in ThreadIds |-> 0]
    /\ sends = 0
    /\ turn = [t \in ThreadIds |-> NoTurn]
    /\ chatRet = [t \in ThreadIds |-> NoReturn]
    /\ \E names \in LoopBatches :
          dispatch = [called |-> TRUE, tool_calls |-> ToolCalls(names, 0), outcomes |-> <<>>,
                      i |-> 1, in_flight |-> 0, outputs |-> <<>>, errors |-> <<>>,
                      returned |-> FALSE, result |-> <<>>]
    /\ files = [t \in ThreadIds |-> NoFile]
    /\ saved = [t \in ThreadIds |-> None]
    /\ clock = 0
    /\ ret = NoCall

\* A loop that ends after its first call.
LoopDoneEarly(d) == d.i > 1

\* for tool_call in last_message.tool_calls: the loop has no call left.
LoopDone(d) == d.i > Len(d.tool_calls)

\* The loop enters _execute_single_tool for the next call.
BeginCall ==
    /\ ~dispatch.returned
    /\ dispatch.in_flight = 0
    /\ ~LoopDone(dispatch)
    /\ dispatch' = [dispatch EXCEPT !.in_flight = @ + 1]
    /\ UNCHANGED <<memory, pc, uuid, sends, turn, chatRet, files, saved, clock, ret>>

\* The call returns its message or raises, and its message is put on one of
\* the two lists.
SettleCall(outcome) ==
    /\ ~dispatch.returned
    /\ dispatch.in_flight = 1
    /\ \E r \in {execute_single_tool(dispatch.tool_calls[dispatch.i], outcome)} :
          dispatch' = [dispatch EXCEPT
                         !.in_flight = @ - 1,
                         !.i = @ + 1,
                         !.outcomes = Append(@, outcome),
                         !.outputs = IF r.raised THEN @ ELSE Append(@, r.value),
                         !.errors = IF r.raised
                                    THEN Append(@, create_error_message(
                                                      dispatch.tool_calls[dispatch.i], r.error))
                                    ELSE @]
    /\ UNCHANGED <<memory, pc, uuid, sends, turn, chatRet, files, saved, clock, ret>>

\* return {"messages": all_outputs}
ReturnOutputs ==
    /\ ~dispatch.returned
    /\ dispatch.in_flight = 0
    /\ LoopDone(dispatch)
    /\ dispatch' = [dispatch EXCEPT !.returned = TRUE,
                                    !.result = dispatch.outputs \o dispatch.errors]
    /\ UNCHANGED <<memory, pc, uuid, sends, turn, chatRet, files, saved, clock, ret>>

LoopNext ==
    \/ BeginCall
    \/ \E outcome \in InvokeOutcomes : SettleCall(outcome)
    \/ ReturnOutputs

LoopSpec == LoopInit /\ [][LoopNext]_vars

\* C26: at most max_parallel calls of the batch are being executed at any
\* time, and what the node returns to the graph holds one message for every
\* call of the batch, all of them settled: it is what the whole loop gives
\* for the outcomes of the calls.
C26_JoinBarrier ==
    /\ dispatch.in_flight <= max_parallel
    /\ Len(dispatch.outputs) + Len(dispatch.errors) = dispatch.i - 1
    /\ ~dispatch.returned => dispatch.result = <<>>
    /\ dispatch.returned =>
          /\ dispatch.in_flight = 0
          /\ Len(dispatch.outcomes) = Len(dispatch.tool_calls)
          /\ Len(dispatch.result) = Len(dispatch.tool_calls)
          /\ dispatch.result = Dispatch(dispatch.tool_calls, dispatch.outcomes)

\* The node has returned the messages of a batch of more than max_parallel
\* calls, some of which failed.
C26_Witness ==
    /\ dispatch.returned
    /\ Len(dispatch.tool_calls) > max_parallel
    /\ Len(dispatch.result) = Len(dispatch.tool_calls)
    /\ dispatch.errors # <<>>
    /\ dispatch.outputs # <<>>

(***************************************************************************)
(* The fallback of the summary generator (EngineSpec).                     *)
(***************************************************************************)
\* The output of the model is text that gives no dict: text that is no JSON,
\* or JSON that is no object.
GivesNoDict ==
    /\ ret.out.kind = "content"
    /\ ~ret.out.parses \/ ~ret.out.value.isdict

\* The text of the log as the prompt of the summary holds it.
Transcript == _format_messages_for_summary(ret.messages)

\* C27: whenever the output of the model gives no dict, generate_summary
\* returns the fallback summary: the fixed title, the transcript cut to
\* fallback_cap characters and the marker when it is longer, the fixed topic,
\* key point and goal, neutral sentiment, the one tag, and the length of the
\* log as message_count; it does not raise.
C27_ParseFailureFallback ==
    (ret.op = "generate" /\ ret.messages # <<>> /\ GivesNoDict) =>
        /\ ~ret.raised
        /\ ret.value =
              ConversationSummary(
                  ret.thread, PyStr(FallbackTitle), PyList(<<FallbackTopic>>),
                  PyList(<<FallbackPoint>>), PyList(<<FallbackGoal>>), ret.now,
                  Len(ret.messages), PyStr(Neutral), PyList(<<Uncategorized>>),
                  PyStr(IF Len(Transcript) <= fallback_cap THEN Transcript
                        ELSE SubSeq(Transcript, 1, fallback_cap) \o Ellipsis))

(***************************************************************************)
(* The history across the turns (Spec).                                    *)
(***************************************************************************)
IsPrefix(s, w) == Len(s) <= Len(w) /\ SubSeq(w, 1, Len(s)) = s

\* C28: the history that a finished chat() call left in the checkpoint is a
\* prefix of every later checkpoint of the thread: while no call runs on the
\* thread a step keeps the history as a prefix, a call that runs keeps the
\* history it found at its start as a prefix, and the messages of that
\* prefix are neither removed, moved nor changed.
C28_AppendOnlyHistory ==
    /\ [][\A t \in ThreadIds :
             /\ pc[t] = "idle" => IsPrefix(memory[t], memory'[t])
             /\ pc[t] # "idle" => /\ turn'[t].entry = turn[t].entry
                                  /\ IsPrefix(turn[t].entry, memory'[t])
             /\ (pc[t] = "idle" /\ pc'[t] # "idle") => turn'[t].entry = memory[t]]_vars
    /\ [](\A t \in ThreadIds :
             turn[t].phase \in {"running", "done"} => IsPrefix(turn[t].entry, memory[t]))

\* The second chat() call of a thread has ended: the history of the first
\* call, which ran a batch of two tool calls, is the beginning of the log.
C28_Witness ==
    \E t \in ThreadIds :
        /\ turn[t].phase = "done"
        /\ Len(turn[t].entry) >= 4
        /\ \E i \in 1..Len(turn[t].entry) : turn[t].entry[i].type = "tool"
        /\ Len(memory[t]) > Len(turn[t].entry)
        /\ SubSeq(memory[t], 1, Len(turn[t].entry)) = turn[t].entry

(***************************************************************************)
(* The automatic summary in test_summary.py and with auto_summarize=False. *)
(***************************************************************************)
\* test_messages[:10]: the messages the test sends "below threshold".
sent_below_threshold == 10

\* The messages of the log that the user sent.
UserMessages(log) == SelectSeq(log, LAMBDA m : m.type = "human")

\* C29: once a chat() call with auto_summarize has returned on a thread that
\* has had at most ten user messages since it was fresh, the log is shorter
\* than message_threshold and get_summary gives None.
C29_TenSendsBelowThreshold ==
    \A t \in ThreadIds :
        (/\ turn[t].phase = "done"
         /\ turn[t].auto
         /\ Len(UserMessages(memory[t])) <= sent_below_threshold) =>
            /\ Len(memory[t]) < message_threshold
            /\ get_summary(files, t) = None

\* C30: a chat() call with auto_summarize=False leaves the summary file of
\* its thread as it found it, from the input to the return, however long the
\* log is; a summary that appears or changes does so in a call that was
\* asked to summarize.
C30_NoSummaryWhenDisabled ==
    /\ [][\A t \in ThreadIds :
             (~turn'[t].auto /\ turn'[t].phase # "none") =>
                 /\ files'[t] = files[t]
                 /\ saved'[t] = saved[t]
                 /\ get_summary(files', t) = get_summary(files, t)]_vars
    /\ [](\A t \in ThreadIds :
             (turn[t].phase = "done" /\ ~turn[t].auto) => ~chatRet[t].summary_generated)

\* A call with auto_summarize=False has returned on a log that has reached
\* message_threshold, and the thread has no summary.
C30_Witness ==
    \E t \in ThreadIds :
        /\ turn[t].phase = "done"
        /\ ~turn[t].auto
        /\ Len(memory[t]) >= message_threshold
        /\ ~chatRet[t].summary_generated
        /\ get_summary(files, t) = None

(***************************************************************************)
(* RestartSpec: the calls of the facade after a restart.  MemorySaver      *)
(* keeps the checkpoints in memory and SummaryStorage keeps the summaries  *)
(* in the directory "summaries": a ChatBot constructed in a directory      *)
(* that an earlier process used has no history and may hold summaries.     *)
(***************************************************************************)
\* The summary an earlier process saved for thread t.
OldSummary(t) ==
    CHOOSE s \in ValidSummaries(t, isoformat(0)) : s.message_count = 4

RestartInit ==
    /\ memory = [t \in ThreadIds |-> <<>>]
    /\ pc = [t \in ThreadIds |-> "idle"]
    /\ uuid = [t \in ThreadIds |-> 0]
    /\ sends = 0
    /\ turn = [t \in ThreadIds |-> NoTurn]
    /\ chatRet = [t \in ThreadIds |-> NoReturn]
    /\ dispatch = NoDispatch
    /\ files \in {[t \in ThreadIds |-> IF t \in S THEN to_dict_dump(OldSummary(t)) ELSE NoFile] :
                    S \in SUBSET ThreadIds}
    /\ saved = [t \in ThreadIds |-> load_summary(files, t)]
    /\ clock = 0
    /\ ret = NoCall

\* The client chats on one thread and manages the summaries of both.
RestartNext ==
    \/ \E message \in FacadeInputs : Quiet /\ Chat("t1", message, TRUE)
    \/ GraphStep("t1")
    \/ \E t \in ThreadIds, outcome \in DeleteOutcomes : Quiet /\ ClearThread(t, outcome)
    \/ \E t \in ThreadIds, out \in SummaryOutputs, tick \in Nows(clock) :
          /\ Quiet
          /\ CallGenerateSummary(t, out, tick) \/ UpdateSummary(t, out, tick)

RestartSpec == RestartInit /\ [][RestartNext]_vars

(***************************************************************************)
(* The summaries of the facade (RestartSpec).                              *)
(***************************************************************************)
\* C31: a call of update_summary for a thread that has a stored summary
\* leaves the storage with a summary of the thread: the one the call
\* returns, generated from the present history (its message_count is the
\* length of the history unless the summary model failed), in a file
\* written anew after the old one was deleted.
C31_UpdateRecreates ==
    [][\A t \in ThreadIds, out \in SummaryOutputs, tick \in Nows(clock) :
          (UpdateSummary(t, out, tick) /\ get_summary(files, t) # None) =>
              /\ get_summary(files', t) # None
              /\ get_summary(files', t) = ret'.value
              /\ ~GenerateTry(get_conversation_history(memory', t), t, out, isoformat(tick)).raised =>
                    ret'.value[1].message_count = Len(get_conversation_history(memory', t))
              /\ files' = save_summary(delete_summary(files, t), ret'.value[1])]_vars

\* C32: clear_thread leaves every summary file as it was, whether or not the
\* checkpoints were deleted, so get_summary gives what it gave before; and
\* on a thread that was cleared and has a summary, auto_summarize_if_needed
\* returns that summary and writes nothing, whatever the threshold.
C32_ClearKeepsSummary ==
    /\ [][\A t \in ThreadIds, outcome \in DeleteOutcomes :
             ClearThread(t, outcome) =>
                 /\ files' = files
                 /\ \A u \in ThreadIds : get_summary(files', u) = get_summary(files, u)]_vars
    /\ [](\A t \in ThreadIds :
             (turn[t].phase = "cleared" /\ get_summary(files, t) # None) =>
                 \A threshold \in Thresholds, out \in SummaryOutputs, tick \in Nows(clock) :
                     auto_summarize_if_needed(memory, files, t, threshold, out, tick)
                         = [value |-> get_summary(files, t), files |-> files,
                            generated |-> FALSE])

\* clear_thread has deleted the history of a turn on a thread that has a
\* summary, and the summary is still the one of the history that is gone.
C32_Witness ==
    /\ ret.op = "clear_thread"
    /\ ret.cleared
    /\ turn[ret.thread].phase = "cleared"
    /\ turn[ret.thread].entry # <<>>
    /\ get_conversation_history(memory, ret.thread) = <<>>
    /\ get_summary(files, ret.thread) = Some(OldSummary(ret.thread))

\* C33: generate_summary of the facade on a thread without history returns
\* None, does not call the generator (the clock is not read) and leaves
\* every file as it was; on a thread with history it returns the summary the
\* generator made of that history, and get_summary then gives that summary,
\* the files of the other threads being as they were.
C33_GenerateOnEmptyThread ==
    [][(ret'.op = "generate_summary" /\ turn' = turn) =>
          \A t \in ThreadIds, out \in SummaryOutputs, tick \in Nows(clock) :
              CallGenerateSummary(t, out, tick) =>
                  IF get_conversation_history(memory, t) = <<>>
                  THEN /\ ret'.value = None
                       /\ files' = files
                       /\ saved' = saved
                       /\ clock' = clock
                  ELSE /\ ret'.value = Some(generate_summary(get_conversation_history(memory, t),
                                                             t, out, isoformat(tick)).value)
                       /\ get_summary(files', t) = ret'.value
                       /\ \A u \in ThreadIds \ {t} : files'[u] = files[u]]_vars

\* generate_summary returned None on a thread whose history was cleared, and
\* the thread has no summary.
C33_Witness ==
    /\ ret.op = "generate_summary"
    /\ ret.value = None
    /\ turn[ret.thread].phase = "cleared"
    /\ get_conversation_history(memory, ret.thread) = <<>>
    /\ get_summary(files, ret.thread) = None

=============================================================================
